---------------------------- MODULE Spec2Model ----------------------------
(***************************************************************************)
(* The live state synchronization core of claude-viz: the plan directory   *)
(* watcher, the todo directory watcher and the update hub of the server    *)
(* (plan history, SSE clients, broadcast).                                 *)
(*                                                                         *)
(* Node runs every callback to completion, so one action is one callback:  *)
(* the part of a handler between two awaits.  A file read, stat or         *)
(* directory listing samples the file system at the moment its completion  *)
(* action is taken; the external assistant's writes and deletes are        *)
(* actions of the environment and may fall between any two callbacks.      *)
(***************************************************************************)
EXTENDS Integers, Sequences, FiniteSets, TLC

(***************************************************************************)
(* Bounds of the model.                                                    *)
(***************************************************************************)
\* events of the environment (file writes and deletes, stream opens and
\* closes, shutdown) in SpecPlan, where file reads overlap
MaxPlanEvents == 4
\* plan file writes and deletes in SpecHub: sequential, more than MaxVersions
MaxHubEvents == 11
\* events of the environment in SpecTodo, where reloads overlap
MaxTodoEvents == 2
\* events of the environment in Spec, the two watchers and the hub together
MaxEvents == 2
\* stream connections ever opened
MaxClients == 2
\* events of the environment in SpecStream: both watchers, sequential, and
\* stream clients
MaxStreamEvents == 4
\* tasks of a TodoState given to calculateStats
MaxTasks == 40
\* characters of a task content given to generateActiveForm
MaxContentLen == 4
\* lines of a markdown document given to parsePlan
MaxLines == 4
\* characters of a heading title given to parsePlan
MaxTitleLen == 3
\* events of the environment in SpecSessions: writes and deletions of session
\* files, and requests for the session listing
MaxSessionEvents == 3
\* events of the environment in SpecPlanList: writes and deletions of plan
\* files, and requests for the plan listing
MaxListEvents == 4
\* events of the environment in SpecServer: both watchers, the stream
\* clients and every request, sequential
MaxServerEvents == 2
\* arguments on the command line
MaxArgs == 3
\* events of the environment in SpecScan: plan files created before the
\* start, changed and deleted after it
MaxScanEvents == 3

(***************************************************************************)
(* Program constants.                                                      *)
(***************************************************************************)
\* the significand of a JavaScript number (IEEE 754 binary64), in bits
SignificandBits == 53
\* server.ts: if (history.versions.length > 10)
MaxVersions == 10
\* plan-watcher.ts handleFileDelete: content: ''
EmptyContent == 0
\* todo-watcher.ts listSessions: .slice(0, 50)
SessionsLimit == 50
\* cli.ts: let port = 8888
DefaultPort == 8888
\* cli.ts: port > 65535
MaxPort == 65535

PlanFiles == {"a.md", "b.md"}
ClientIds == 1..MaxClients

\* Strings the code takes apart are sequences of characters.
\* session files "a-1.json" and "b-2-3.json"
TodoFiles == { <<"a", "-", "1", ".", "j", "s", "o", "n">>,
               <<"b", "-", "2", "-", "3", ".", "j", "s", "o", "n">> }
\* todo-watcher.ts loadState: sessionId: 'no-session'
NoSession == <<"n", "o", "-", "s", "e", "s", "s", "i", "o", "n">>
\* TodoWatcher.currentState = null
NoState == [null |-> TRUE]

\* What a session file can hold.  A file is JSON text; JSON.parse either
\* throws or gives a value, an array of items or something else; an item is
\* null or an object {content, status}.
Item(content, status) == [null |-> FALSE, content |-> content, status |-> status]
NullItem == [null |-> TRUE, content |-> <<>>, status |-> ""]
JsonArray(items) == [parses |-> TRUE, isArray |-> TRUE, items |-> items]
\* [{content: "Run it", status: "pending"}, {content: "Do", status: "in_progress"},
\*  {content: "Write", status: "bogus"}]
GoodJson ==
    JsonArray(<< Item(<<"R", "u", "n", " ", "i", "t">>, "pending"),
                 Item(<<"D", "o">>, "in_progress"),
                 Item(<<"W", "r", "i", "t", "e">>, "bogus") >>)
\* [{content: "Fix", status: "in_progress"}, null]: mapping the second throws
BadItemJson ==
    JsonArray(<< Item(<<"F", "i", "x">>, "in_progress"), NullItem >>)
\* {"todos": []}: parses, and is no array
NotArrayJson == [parses |-> TRUE, isArray |-> FALSE, items |-> <<>>]
\* text that JSON.parse rejects, such as a file caught half written
MalformedJson == [parses |-> FALSE, isArray |-> FALSE, items |-> <<>>]
\* the contents the external assistant writes
TodoContents == {GoodJson, BadItemJson, MalformedJson}
\* []: a session that has no task
EmptyArrayJson == JsonArray(<<>>)
\* what the external assistant writes for a session without tasks
TasklessContents == {EmptyArrayJson, NotArrayJson}

VARIABLES
    events,       \* events of the environment so far
    now,          \* the clock: Date.now() and the mtime given to a written file
    planDirExists,\* whether the plans directory exists
    planDirCreated,\* history variable: PlanWatcher.start() created the directory
    planDir,      \* the plans directory: file name -> [exists, content, mtime]
    planWatcher,  \* PlanWatcher.watcher: "null", "watching" or "closed"
    planReads,    \* handleFileChange invocations suspended at an await
    planNotifs,   \* add/change/unlink notifications chokidar has reported
    emitLog,      \* history variable: the update events PlanWatcher emitted
    planHistory,  \* server.ts planHistory: Map filename -> versions
    clients,      \* server.ts clients: Set of responses, in insertion order
    opened,       \* number of stream connections opened so far
    sent,         \* what has been written to each response
    openedAt,     \* history variable: Len(bcast) when the stream was opened
    bcast,        \* history variable: the messages given to broadcastUpdate
    closedConns,  \* history variable: the connections whose close was signalled
    uncaught,     \* an exception has left a handler uncaught
    todoDirExists,\* whether the todos directory exists
    todoDir,      \* the todos directory: file name -> [exists, json, mtime]
    todoWatcher,  \* TodoWatcher.start(): "null", "loading", "watching", "absent"
    loads,        \* loadState invocations suspended at an await
    todoNotifs,   \* add/change notifications chokidar has reported
    currentState, \* TodoWatcher.currentState
    todoWritten,  \* history variable: file name -> the contents it has held
    sessionLoads, \* loadSession invocations suspended at an await
    planLists,    \* listPlans invocations suspended at an await
    sessionLists, \* listSessions invocations suspended at an await
    call          \* the latest function application or answered request

planVars == <<planDirExists, planDirCreated, planDir, planWatcher, planReads, planNotifs,
             emitLog>>
hubVars  == <<planHistory, clients, opened, sent, openedAt, closedConns, bcast, uncaught>>
todoVars == <<todoDirExists, todoDir, todoWatcher, loads, todoNotifs, currentState,
              todoWritten>>
apiVars  == <<sessionLoads, planLists, sessionLists, call>>
vars     == <<events, now, planVars, hubVars, todoVars, apiVars>>

Range(s) == {s[i] : i \in DOMAIN s}

(***************************************************************************)
(* Update Hub: server.ts                                                   *)
(***************************************************************************)
\* mutant: the trim is left out
TrimVersionsNever(versions) == versions

\* mutant: the newest version is dropped (pop() for shift())
TrimVersionsPop(versions) ==
    IF Len(versions) > MaxVersions
    THEN SubSeq(versions, 1, Len(versions) - 1) ELSE versions

\* "Keep only last 10 versions": one shift() after one push()
TrimVersions(versions) ==
    IF Len(versions) > MaxVersions THEN Tail(versions) ELSE versions

\* the versions of a filename; [] when the Map has no record
VersionsOf(history, filename) ==
    IF filename \in DOMAIN history THEN history[filename] ELSE <<>>

\* mutant: the test of update.type is left out
RecordVersionAnyType(history, update) ==
    (update.file.filename :>
        TrimVersions(Append(VersionsOf(history, update.file.filename),
                            [content   |-> update.file.content,
                             timestamp |-> update.timestamp]))) @@ history

\* mutant: a deleted update drops the file's record from the Map
RecordVersionForgetting(history, update) ==
    IF update.type # "deleted"
    THEN LET pushed == Append(VersionsOf(history, update.file.filename),
                              [content   |-> update.file.content,
                               timestamp |-> update.timestamp])
         IN  (update.file.filename :> TrimVersions(pushed)) @@ history
    ELSE [f \in DOMAIN history \ {update.file.filename} |-> history[f]]

\* the history part of planWatcher.on('update')
RecordVersion(history, update) ==
    IF update.type # "deleted"
    THEN LET pushed == Append(VersionsOf(history, update.file.filename),
                              [content   |-> update.file.content,
                               timestamp |-> update.timestamp])
         IN  (update.file.filename :> TrimVersions(pushed)) @@ history
    ELSE history

\* `data: ${JSON.stringify(message)}\n\n`: the message's fields, all of them
\* strings, numbers and arrays that JSON carries as they are
Frame(message) == [data |-> message]

\* mutant: the newest frame is put before the ones already written
BroadcastUpdatePrepend(message) ==
    /\ sent' = [c \in ClientIds |->
                  IF c \in Range(clients)
                  THEN <<Frame(message)>> \o sent[c] ELSE sent[c]]
    /\ bcast' = Append(bcast, message)

\* mutant: the forEach stops after the first client
BroadcastUpdateFirstOnly(message) ==
    /\ sent' = [c \in ClientIds |->
                  IF clients # <<>> /\ c = clients[1]
                  THEN Append(sent[c], Frame(message)) ELSE sent[c]]
    /\ bcast' = Append(bcast, message)

\* clients.forEach(client => client.write(...))
BroadcastUpdate(message) ==
    /\ sent' = [c \in ClientIds |->
                  IF c \in Range(clients)
                  THEN Append(sent[c], Frame(message)) ELSE sent[c]]
    /\ bcast' = Append(bcast, message)

\* mutant: the frame is written while the history has yet to be appended
OnPlanUpdateBroadcastFirst(update) ==
    /\ planHistory' = planHistory
    /\ BroadcastUpdate([type |-> "plan", data |-> update])

\* planWatcher.on('update', ...)
OnPlanUpdate(update) ==
    /\ planHistory' = RecordVersion(planHistory, update)
    /\ BroadcastUpdate([type |-> "plan", data |-> update])

\* mutant: a new subscriber is first written the latest broadcast
StreamOpenReplay ==
    /\ opened < MaxClients
    /\ events' = events + 1
    /\ opened' = opened + 1
    /\ clients' = Append(clients, opened + 1)
    /\ openedAt' = [openedAt EXCEPT ![opened + 1] = Len(bcast)]
    /\ sent' = [sent EXCEPT ![opened + 1] =
                   IF bcast = <<>> THEN <<>> ELSE <<Frame(bcast[Len(bcast)])>>]
    /\ UNCHANGED <<now, planVars, todoVars, apiVars, planHistory, closedConns, bcast, uncaught>>

\* GET /api/stream: clients.add(res)
StreamOpen ==
    /\ opened < MaxClients
    /\ events' = events + 1
    /\ opened' = opened + 1
    /\ clients' = Append(clients, opened + 1)
    /\ openedAt' = [openedAt EXCEPT ![opened + 1] = Len(bcast)]
    /\ UNCHANGED <<now, planVars, todoVars, apiVars, planHistory, sent, closedConns, bcast, uncaught>>

\* mutant: the close handler leaves the response in the set
StreamCloseKeep ==
  \E c \in ClientIds :
    /\ c \in Range(clients) /\ c \notin closedConns
    /\ clients' = clients
    /\ closedConns' = closedConns \cup {c}
    /\ events' = events + 1
    /\ UNCHANGED <<now, planVars, todoVars, apiVars, planHistory, opened, sent, openedAt, bcast,
                   uncaught>>

\* req.on('close'): clients.delete(res)
StreamClose ==
  \E c \in ClientIds :
    /\ c \in Range(clients)
    /\ clients' = SelectSeq(clients, LAMBDA x : x # c)
    /\ closedConns' = closedConns \cup {c}
    /\ events' = events + 1
    /\ UNCHANGED <<now, planVars, todoVars, apiVars, planHistory, opened, sent, openedAt, bcast,
                   uncaught>>

\* GET /api/plans/:filename/history: 404 when the Map has no record
GetHistory(filename) ==
    IF filename \in DOMAIN planHistory
    THEN [status |-> 200, versions |-> planHistory[filename]]
    ELSE [status |-> 404, versions |-> <<>>]

(***************************************************************************)
(* Plan Directory Watcher: watchers/plan-watcher.ts                        *)
(***************************************************************************)
\* this.emit('update', update): the hub's listener runs inside the emit
EmitPlanUpdate(update, notif) ==
    /\ emitLog' = Append(emitLog, [filename |-> update.file.filename,
                                   type |-> update.type, notif |-> notif,
                                   update |-> update])
    /\ OnPlanUpdate(update)

\* a start that clears the directory it is about to watch
PlanStartClearing ==
    /\ planWatcher = "null"
    /\ planDirExists' = TRUE
    /\ planDirCreated' = ~planDirExists
    /\ planWatcher' = "watching"
    /\ planDir' = [f \in PlanFiles |-> [planDir[f] EXCEPT !.exists = FALSE]]
    /\ UNCHANGED <<events, now, planReads, planNotifs, emitLog, hubVars, todoVars, apiVars>>

\* a start with ignoreInitial: true: the files already there are not reported
PlanStartIgnoreInitial ==
    /\ planWatcher = "null"
    /\ planDirExists' = TRUE
    /\ planDirCreated' = ~planDirExists
    /\ planWatcher' = "watching"
    /\ UNCHANGED <<events, now, planDir, planReads, planNotifs, emitLog, hubVars, todoVars,
                   apiVars>>

\* PlanWatcher.start(): fs.access fails for a missing directory and fs.mkdir
\* creates it (an empty directory, no file in it); chokidar.watch with
\* ignoreInitial: false then reports an add for every file already there
PlanStart ==
    /\ planWatcher = "null"
    /\ planDirExists' = TRUE
    /\ planDirCreated' = ~planDirExists
    /\ planWatcher' = "watching"
    /\ LET present == {f \in PlanFiles : planDir[f].exists}
           num == CHOOSE n \in [present -> 1..Cardinality(present)] :
                      \A f, g \in present : f # g => n[f] # n[g]
       IN  /\ planReads' = planReads \cup
                  {[notif |-> planNotifs + num[f], type |-> "created",
                    filename |-> f, pc |-> "readFile", content |-> EmptyContent]
                   : f \in present}
           /\ planNotifs' = planNotifs + Cardinality(present)
    /\ UNCHANGED <<events, now, planDir, emitLog, hubVars, todoVars, apiVars>>

\* the external assistant writes a plan file; a running watcher reports add
\* or change, and handleFileChange runs up to its first await
PlanWrite ==
  \E f \in PlanFiles :
    /\ planDirExists
    /\ events' = events + 1
    /\ now' = now + 1
    /\ planDir' = [planDir EXCEPT ![f] =
                      [exists |-> TRUE, content |-> @.content + 1, mtime |-> now + 1]]
    /\ IF planWatcher = "watching"
       THEN /\ planNotifs' = planNotifs + 1
            /\ planReads' = planReads \cup
                   {[notif |-> planNotifs + 1,
                     type |-> IF planDir[f].exists THEN "modified" ELSE "created",
                     filename |-> f, pc |-> "readFile", content |-> EmptyContent]}
       ELSE UNCHANGED <<planNotifs, planReads>>
    /\ UNCHANGED <<planDirExists, planDirCreated, planWatcher, emitLog, hubVars, todoVars,
                   apiVars>>

\* handleFileChange: await fs.readFile resolves or throws
PlanReadFile ==
  \E r \in planReads :
    /\ r \in planReads
    /\ r.pc = "readFile"
    /\ planReads' =
          IF planDir[r.filename].exists
          THEN (planReads \ {r}) \cup
                   {[r EXCEPT !.pc = "stat", !.content = planDir[r.filename].content]}
          ELSE planReads \ {r}
    /\ UNCHANGED <<events, now, planDirExists, planDirCreated, planDir, planWatcher,
                   planNotifs, emitLog, hubVars, todoVars, apiVars>>

\* a handler that, when the stat fails, emits the update with what it has
PlanStatEmitsOnFailure ==
  \E r \in planReads :
    /\ r.pc = "stat"
    /\ planReads' = planReads \ {r}
    /\ EmitPlanUpdate([type |-> r.type,
                       file |-> [filename |-> r.filename,
                                 content |-> r.content,
                                 lastModified |-> planDir[r.filename].mtime],
                       timestamp |-> now], r.notif)
    /\ UNCHANGED <<events, now, planDirExists, planDirCreated, planDir, planWatcher,
                   planNotifs, clients, opened, openedAt, closedConns, uncaught, todoVars,
                   apiVars>>

\* handleFileChange: await fs.stat resolves (then emit) or throws
PlanStat ==
  \E r \in planReads :
    /\ r \in planReads
    /\ r.pc = "stat"
    /\ planReads' = planReads \ {r}
    /\ IF planDir[r.filename].exists
       THEN EmitPlanUpdate([type |-> r.type,
                            file |-> [filename |-> r.filename,
                                      content |-> r.content,
                                      lastModified |-> planDir[r.filename].mtime],
                            timestamp |-> now], r.notif)
       ELSE UNCHANGED <<emitLog, planHistory, sent, bcast>>
    /\ UNCHANGED <<events, now, planDirExists, planDirCreated, planDir, planWatcher,
                   planNotifs, clients, opened, openedAt, closedConns, uncaught, todoVars,
                   apiVars>>

\* the external assistant deletes a plan file; a running watcher reports
\* unlink and handleFileDelete emits at once
PlanDelete ==
  \E f \in PlanFiles :
    /\ planDir[f].exists
    /\ events' = events + 1
    /\ planDir' = [planDir EXCEPT ![f].exists = FALSE]
    /\ IF planWatcher = "watching"
       THEN /\ planNotifs' = planNotifs + 1
            /\ EmitPlanUpdate([type |-> "deleted",
                               file |-> [filename |-> f, content |-> EmptyContent,
                                         lastModified |-> now],
                               timestamp |-> now], planNotifs + 1)
       ELSE UNCHANGED <<planNotifs, emitLog, planHistory, sent, bcast>>
    /\ UNCHANGED <<now, planDirExists, planDirCreated, planWatcher, planReads, clients, opened,
                   openedAt, closedConns, uncaught, todoVars, apiVars>>

\* PlanWatcher.stop(): the chokidar watcher is closed
PlanStop ==
    /\ planWatcher = "watching"
    /\ planWatcher' = "closed"
    /\ events' = events + 1
    /\ UNCHANGED <<now, planDirExists, planDirCreated, planDir, planReads, planNotifs,
                   emitLog, hubVars, todoVars, apiVars>>

(***************************************************************************)
(* Todo Directory Watcher: watchers/todo-watcher.ts                        *)
(***************************************************************************)
\* content.split(sep): the pieces between the separators, "" included
RECURSIVE Split(_, _)
Split(chars, sep) ==
    IF \A i \in DOMAIN chars : chars[i] # sep
    THEN <<chars>>
    ELSE LET i == CHOOSE k \in DOMAIN chars :
                      chars[k] = sep /\ \A j \in 1..(k - 1) : chars[j] # sep
         IN  <<SubSeq(chars, 1, i - 1)>> \o Split(SubSeq(chars, i + 1, Len(chars)), sep)

\* words.join(sep)
RECURSIVE Join(_, _)
Join(words, sep) ==
    IF words = <<>> THEN <<>>
    ELSE IF Len(words) = 1 THEN words[1]
    ELSE words[1] \o <<sep>> \o Join(Tail(words), sep)

IsVowel(c) == c \in {"a", "e", "i", "o", "u"}

\* firstWord.match(/[^aeiou][aeiou][^aeiou]$/)
EndsConsonantVowelConsonant(word) ==
    /\ Len(word) >= 3
    /\ ~IsVowel(word[Len(word) - 2])
    /\ IsVowel(word[Len(word) - 1])
    /\ ~IsVowel(word[Len(word)])

\* generateActiveForm: "Do something" -> "Doing something"
generateActiveForm(content) ==
    LET words == Split(content, " ")
        firstWord == words[1]
        n == Len(firstWord)
        ing == <<"i", "n", "g">>
        activeWord ==
            IF n > 0 /\ firstWord[n] = "e" THEN SubSeq(firstWord, 1, n - 1) \o ing
            ELSE IF EndsConsonantVowelConsonant(firstWord)
                 THEN firstWord \o <<firstWord[n]>> \o ing
            ELSE firstWord \o ing
    IN  activeWord \o <<" ">> \o Join(Tail(words), " ")

\* mutant: the external status is passed through
MapStatusPassThrough(status) == status

\* the status of a mapped task
MapStatus(status) ==
    IF status = "pending" THEN "pending"
    ELSE IF status = "in_progress" THEN "in_progress"
    ELSE "completed"

\* one step of claudeTodos.map(...)
MapTodo(todo, mtime) ==
    [content    |-> todo.content,
     activeForm |-> generateActiveForm(todo.content),
     status     |-> MapStatus(todo.status),
     timestamp  |-> mtime]

\* mostRecent.file.split('-')[0]
SessionId(file) == Split(file, "-")[1]

\* JSON.parse(content) throws, or claudeTodos.map(...) throws: the value is no
\* array, or an item is null
LoadThrows(json) ==
    \/ ~json.parses
    \/ ~json.isArray
    \/ \E i \in DOMAIN json.items : json.items[i].null

\* the object literal assigned to this.currentState
TodoStateOf(file, mtime, json) ==
    [sessionId   |-> SessionId(file),
     tasks       |-> [i \in DOMAIN json.items |-> MapTodo(json.items[i], mtime)],
     lastUpdated |-> mtime]

\* mutant: the sentinel is assigned only while no live state is held
SentinelStateKept(time) ==
    IF currentState = NoState
    THEN [sessionId |-> NoSession, tasks |-> <<>>, lastUpdated |-> time]
    ELSE currentState

\* the no-JSON-file branch of loadState
SentinelState(time) == [sessionId |-> NoSession, tasks |-> <<>>, lastUpdated |-> time]

\* mutant: the tasks are pushed one by one into the live state, which keeps
\* those mapped before the item that throws
LoadedStatePartial(current, file, mtime, json) ==
    IF ~json.parses \/ ~json.isArray THEN current
    ELSE LET bad == {i \in DOMAIN json.items : json.items[i].null}
             n == IF bad = {} THEN Len(json.items)
                  ELSE (CHOOSE i \in bad : \A j \in bad : i <= j) - 1
         IN  [sessionId   |-> SessionId(file),
              tasks       |-> [i \in 1..n |-> MapTodo(json.items[i], mtime)],
              lastUpdated |-> mtime]

\* this.currentState after the read of mostRecent: the assignment is the last
\* statement of the try block, and the catch block assigns nothing
LoadedState(current, file, mtime, json) ==
    IF LoadThrows(json) THEN current ELSE TodoStateOf(file, mtime, json)

\* mutant: the catch block resets the live state
FailedStateReset(current) == NoState

\* this.currentState after a readdir, stat or readFile that throws
FailedState(current) == current

(***************************************************************************)
(* JavaScript numbers.  (completed / total) * 100 is evaluated in binary64: *)
(* the quotient is rounded to 53 significant bits and so is the product.   *)
(* A number is man * 2^(-exp); a significand is wider than the checker's   *)
(* integers and is kept as limbs of 20 bits, the least significant first.  *)
(***************************************************************************)
Limb == 2^20

\* x * k + carry, for a small k
RECURSIVE MulCarry(_, _, _)
MulCarry(x, k, carry) ==
    IF x = <<>> THEN (IF carry = 0 THEN <<>> ELSE <<carry>>)
    ELSE LET v == x[1] * k + carry
         IN  <<v % Limb>> \o MulCarry(Tail(x), k, v \div Limb)
MulSmall(x, k) == MulCarry(x, k, 0)
AddSmall(x, k) == MulCarry(x, 1, k)

\* quotient and remainder of x by a small d
RECURSIVE DivMod(_, _)
DivMod(x, d) ==
    IF x = <<>> THEN [q |-> <<>>, r |-> 0]
    ELSE LET hi == DivMod(Tail(x), d)
             v == hi.r * Limb + x[1]
         IN  [q |-> <<v \div d>> \o hi.q, r |-> v % d]

RECURSIVE IntBits(_)
IntBits(n) == IF n = 0 THEN 0 ELSE 1 + IntBits(n \div 2)

\* the number of bits of x
RECURSIVE BitLength(_)
BitLength(x) ==
    IF x = <<>> THEN 0
    ELSE LET hi == BitLength(Tail(x))
         IN  IF hi > 0 THEN hi + 20 ELSE IntBits(x[1])

\* x * 2^n and floor(x / 2^n)
RECURSIVE Shl(_, _)
Shl(x, n) ==
    IF n = 0 THEN x
    ELSE IF n >= 20 THEN <<0>> \o Shl(x, n - 20)
    ELSE Shl(MulSmall(x, 2), n - 1)
RECURSIVE Shr(_, _)
Shr(x, n) ==
    IF n = 0 \/ x = <<>> THEN x
    ELSE IF n >= 20 THEN Shr(Tail(x), n - 20)
    ELSE Shr(DivMod(x, 2).q, n - 1)

\* the value of an x that fits an integer
RECURSIVE ToInt(_)
ToInt(x) == IF x = <<>> THEN 0 ELSE x[1] + Limb * ToInt(Tail(x))

\* round to nearest, ties to even: the quotient q of a division by d that
\* left remainder r
RoundNearestEven(q, r, d) ==
    IF 2 * r > d \/ (2 * r = d /\ q # <<>> /\ q[1] % 2 = 1) THEN AddSmall(q, 1) ELSE q

\* the least j with c * 2^j >= t
RECURSIVE LeadShift(_, _)
LeadShift(c, t) == IF c >= t THEN 0 ELSE 1 + LeadShift(2 * c, t)

\* c / t for integers 0 <= c <= t, t > 0
DoubleDiv(c, t) ==
    IF c = 0 THEN [man |-> <<>>, exp |-> 0]
    ELSE LET exp == (SignificandBits - 1) + LeadShift(c, t)
             dm == DivMod(Shl(<<c>>, exp), t)
         IN  [man |-> RoundNearestEven(dm.q, dm.r, t), exp |-> exp]

\* x * k for a small integer k
DoubleMul(x, k) ==
    LET product == MulSmall(x.man, k)
        excess == IF BitLength(product) > SignificandBits
                  THEN BitLength(product) - SignificandBits ELSE 0
        dm == DivMod(product, 2^excess)
    IN  [man |-> RoundNearestEven(dm.q, dm.r, 2^excess), exp |-> x.exp - excess]

\* Math.round(x) for 0 <= x <= 100: floor(x + 0.5), exactly
MathRound(x) ==
    IF x.man = <<>> THEN 0 ELSE (ToInt(Shr(x.man, x.exp - 1)) + 1) \div 2

\* TodoWatcher.calculateStats
calculateStats(state) ==
    LET count(status) == Cardinality({i \in DOMAIN state.tasks : state.tasks[i].status = status})
        pending == count("pending")
        inProgress == count("in_progress")
        completed == count("completed")
        total == Len(state.tasks)
    IN  [total |-> total, pending |-> pending, inProgress |-> inProgress,
         completed |-> completed,
         completionPercentage |->
             IF total > 0 THEN MathRound(DoubleMul(DoubleDiv(completed, total), 100)) ELSE 0]

\* TodoWatcher.getState()
getState == currentState

\* res.status(404).json({ error: ... })
NotFound(error) == [status |-> 404, body |-> [error |-> error]]

\* GET /api/todos
GetTodos ==
    IF getState = NoState THEN NotFound("No todo state available")
    ELSE [status |-> 200, body |-> getState]

\* a stats endpoint that answers for the absent state with the stats of no task
GetTodosStatsOfNothing ==
    [status |-> 200,
     body |-> IF getState = NoState
              THEN [total |-> 0, pending |-> 0, inProgress |-> 0, completed |-> 0,
                    completionPercentage |-> 0]
              ELSE calculateStats(getState)]

\* GET /api/todos/stats
GetTodosStats ==
    IF getState = NoState THEN NotFound("No todo state available")
    ELSE [status |-> 200, body |-> calculateStats(getState)]

\* todoWatcher.on('update', ...): state.tasks.length throws on null, before
\* the broadcast
OnTodoUpdate(state) ==
    IF state = NoState
    THEN uncaught' = TRUE /\ UNCHANGED <<sent, bcast>>
    ELSE BroadcastUpdate([type |-> "todo", data |-> state]) /\ UNCHANGED uncaught

\* mutant: the todo listener ends the streams it has written to
LoadEndClosing(l, state) ==
    /\ loads' = loads \ {l}
    /\ currentState' = state
    /\ IF l.notif = 0
       THEN todoWatcher' = "watching" /\ UNCHANGED <<sent, bcast, uncaught, clients>>
       ELSE OnTodoUpdate(state) /\ clients' = <<>> /\ UNCHANGED todoWatcher
    /\ UNCHANGED <<events, now, planVars, planHistory, opened, openedAt, closedConns,
                   todoDirExists, todoDir, todoNotifs, todoWritten, apiVars>>

\* the callback in which loadState returns.  The reload of start() goes on
\* to install the watcher; the reload of an add/change handler goes on to
\* this.emit('update', this.currentState), and the hub's listener runs
\* inside the emit.
LoadEnd(l, state) ==
    /\ loads' = loads \ {l}
    /\ currentState' = state
    /\ IF l.notif = 0
       THEN todoWatcher' = "watching" /\ UNCHANGED <<sent, bcast, uncaught>>
       ELSE OnTodoUpdate(state) /\ UNCHANGED todoWatcher
    /\ UNCHANGED <<events, now, planVars, planHistory, clients, opened, openedAt, closedConns,
                   todoDirExists, todoDir, todoNotifs, todoWritten, apiVars>>

\* a loadState invocation up to its first await
NewLoad(notif) ==
    [notif |-> notif, pc |-> "readdir", listed |-> {}, stats |-> <<>>,
     mostRecent |-> <<>>, mtime |-> 0]

\* a start that creates a missing todos directory and goes on to load
TodoStartCreating ==
    /\ todoWatcher = "null"
    /\ todoDirExists' = TRUE
    /\ todoWatcher' = "loading"
    /\ loads' = loads \cup {NewLoad(0)}
    /\ UNCHANGED <<events, now, planVars, hubVars, todoDir, todoNotifs, todoWritten,
                   currentState, apiVars>>

\* mutant: the catch of fs.access warns without returning
TodoStartNoReturn ==
    /\ todoWatcher = "null"
    /\ todoWatcher' = "loading"
    /\ loads' = loads \cup {NewLoad(0)}
    /\ UNCHANGED <<events, now, planVars, hubVars, todoDirExists, todoDir,
                   todoNotifs, todoWritten, currentState, apiVars>>

\* TodoWatcher.start(): await fs.access; return when the directory is not
\* there, else call loadState
TodoStart ==
    /\ todoWatcher = "null"
    /\ IF todoDirExists
       THEN todoWatcher' = "loading" /\ loads' = loads \cup {NewLoad(0)}
       ELSE todoWatcher' = "absent" /\ UNCHANGED loads
    /\ UNCHANGED <<events, now, planVars, hubVars, todoDirExists, todoDir,
                   todoNotifs, todoWritten, currentState, apiVars>>

\* the external assistant writes a session file; a running watcher reports
\* add or change, and the handler calls loadState
TodoWriteOf(contents) ==
  \E f \in TodoFiles, json \in contents :
    /\ todoDirExists
    /\ events' = events + 1
    /\ now' = now + 1
    /\ todoDir' = [todoDir EXCEPT ![f] =
                      [exists |-> TRUE, json |-> json, mtime |-> now + 1]]
    /\ todoWritten' = [todoWritten EXCEPT ![f] = @ \cup {json}]
    /\ IF todoWatcher = "watching"
       THEN todoNotifs' = todoNotifs + 1 /\ loads' = loads \cup {NewLoad(todoNotifs + 1)}
       ELSE UNCHANGED <<todoNotifs, loads>>
    /\ UNCHANGED <<planVars, hubVars, todoDirExists, todoWatcher, currentState, apiVars>>

\* a session file with tasks, or one caught half written
TodoWrite == TodoWriteOf(TodoContents)

\* a session file of a session without tasks
TodoWriteEmpty == TodoWriteOf(TasklessContents)

\* the external assistant deletes a session file; the watcher has no unlink
\* handler
TodoDelete ==
  \E f \in TodoFiles :
    /\ todoDir[f].exists
    /\ events' = events + 1
    /\ todoDir' = [todoDir EXCEPT ![f].exists = FALSE]
    /\ UNCHANGED <<now, planVars, hubVars, todoDirExists, todoWatcher, loads,
                   todoNotifs, todoWritten, currentState, apiVars>>

\* the todos directory is removed with all it holds
TodoRmdir ==
    /\ todoDirExists
    /\ events' = events + 1
    /\ todoDirExists' = FALSE
    /\ todoDir' = [f \in TodoFiles |-> [todoDir[f] EXCEPT !.exists = FALSE]]
    /\ UNCHANGED <<now, planVars, hubVars, todoWatcher, loads, todoNotifs, todoWritten,
                   currentState, apiVars>>

\* the todos directory is created
TodoMkdir ==
    /\ ~todoDirExists
    /\ events' = events + 1
    /\ todoDirExists' = TRUE
    /\ UNCHANGED <<now, planVars, hubVars, todoDir, todoWatcher, loads, todoNotifs, todoWritten,
                   currentState, apiVars>>

\* loadState: await fs.readdir resolves or throws
LoadReaddir ==
  \E l \in loads :
    /\ l.pc = "readdir"
    /\ LET jsonFiles == {f \in TodoFiles : todoDir[f].exists}
       IN  IF ~todoDirExists THEN LoadEnd(l, FailedState(currentState))
           ELSE IF jsonFiles = {} THEN LoadEnd(l, SentinelState(now))
           ELSE /\ loads' = (loads \ {l}) \cup
                                {[l EXCEPT !.pc = "stat", !.listed = jsonFiles]}
                /\ UNCHANGED <<events, now, planVars, hubVars, todoDirExists, todoDir,
                               todoWatcher, todoNotifs, todoWritten, currentState, apiVars>>

\* fileStats.sort((a, b) => b.mtime - a.mtime)[0]: a file of the greatest
\* mtime; among equal mtimes the one readdir listed first, in any order
MostRecent(stats) ==
    {f \in DOMAIN stats : \A g \in DOMAIN stats : stats[g] <= stats[f]}

\* loadState: one fs.stat of the Promise.all resolves or throws; after the
\* last one the most recent file is picked and its read is started
LoadStat ==
  \E l \in loads :
    /\ l.pc = "stat"
    /\ \E f \in l.listed \ DOMAIN l.stats :
          IF ~todoDir[f].exists THEN LoadEnd(l, FailedState(currentState))
          ELSE LET stats == (f :> todoDir[f].mtime) @@ l.stats
               IN  /\ IF DOMAIN stats = l.listed
                      THEN \E m \in MostRecent(stats) :
                              loads' = (loads \ {l}) \cup
                                  {[l EXCEPT !.pc = "readFile", !.stats = stats,
                                             !.mostRecent = m, !.mtime = stats[m]]}
                      ELSE loads' = (loads \ {l}) \cup {[l EXCEPT !.stats = stats]}
                   /\ UNCHANGED <<events, now, planVars, hubVars, todoDirExists, todoDir,
                                  todoWatcher, todoNotifs, todoWritten, currentState, apiVars>>

\* loadState: await fs.readFile resolves or throws, then parse, map, assign
LoadReadFile ==
  \E l \in loads :
    /\ l.pc = "readFile"
    /\ IF ~todoDir[l.mostRecent].exists THEN LoadEnd(l, FailedState(currentState))
       ELSE LoadEnd(l, LoadedState(currentState, l.mostRecent, l.mtime,
                                   todoDir[l.mostRecent].json))

\* a session whose tasks are in the reverse of the file's order
SessionStateOfReversed(filename, mtime, json) ==
    [sessionId   |-> SessionId(filename),
     tasks       |-> [i \in DOMAIN json.items |->
                         MapTodo(json.items[Len(json.items) + 1 - i], mtime)],
     lastUpdated |-> mtime]

\* the object literal loadSession returns: the mapping of loadState, written
\* out a second time
SessionStateOf(filename, mtime, json) ==
    [sessionId   |-> SessionId(filename),
     tasks       |-> [i \in DOMAIN json.items |-> MapTodo(json.items[i], mtime)],
     lastUpdated |-> mtime]

\* a handler that makes the session it loaded the live state
SessionRespondAssigns(s, state) ==
    /\ sessionLoads' = sessionLoads \ {s}
    /\ call' = [fn |-> "loadSession", done |-> TRUE, input |-> s.filename,
                output |-> IF state = NoState THEN NotFound("Session not found")
                           ELSE [status |-> 200, body |-> state]]
    /\ currentState' = state
    /\ UNCHANGED <<events, now, planVars, hubVars, todoDirExists, todoDir, todoWatcher, loads,
                   todoNotifs, todoWritten, planLists, sessionLists>>

\* GET /api/sessions/:filename answers: 404 when loadSession returned null
SessionRespond(s, state) ==
    /\ sessionLoads' = sessionLoads \ {s}
    /\ call' = [fn |-> "loadSession", done |-> TRUE, input |-> s.filename,
                output |-> IF state = NoState THEN NotFound("Session not found")
                           ELSE [status |-> 200, body |-> state]]
    /\ UNCHANGED <<events, now, planVars, hubVars, todoVars, planLists, sessionLists>>

\* a client requests a session file; loadSession runs up to its first await
SessionRequest ==
  \E f \in TodoFiles :
    /\ events' = events + 1
    /\ sessionLoads' = sessionLoads \cup
          {[id |-> events + 1, filename |-> f, file |-> todoDir[f], pc |-> "readFile",
            json |-> MalformedJson]}
    /\ UNCHANGED <<now, planVars, hubVars, todoVars, planLists, sessionLists, call>>

\* loadSession: await fs.readFile resolves or throws, then JSON.parse
SessionReadFile ==
  \E s \in sessionLoads :
    /\ s.pc = "readFile"
    /\ IF ~todoDir[s.filename].exists \/ ~todoDir[s.filename].json.parses
       THEN SessionRespond(s, NoState)
       ELSE /\ sessionLoads' = (sessionLoads \ {s}) \cup
                   {[s EXCEPT !.pc = "stat", !.json = todoDir[s.filename].json]}
            /\ UNCHANGED <<events, now, planVars, hubVars, todoVars, planLists, sessionLists,
                           call>>

\* loadSession: await fs.stat resolves or throws, then the mapping
SessionStat ==
  \E s \in sessionLoads :
    /\ s.pc = "stat"
    /\ IF ~todoDir[s.filename].exists \/ LoadThrows(s.json)
       THEN SessionRespond(s, NoState)
       ELSE SessionRespond(s, SessionStateOf(s.filename, todoDir[s.filename].mtime, s.json))

\* Array.prototype.sort with (a, b) => b[key] - a[key] on entries whose keys
\* differ pairwise (two files never carry the same modification time here,
\* so the order the directory was read in does not show in the result)
RECURSIVE SortDescending(_)
SortDescending(entries) ==
    IF entries = {} THEN <<>>
    ELSE LET newest == CHOOSE e \in entries : \A o \in entries : o.mtime <= e.mtime
         IN  <<newest>> \o SortDescending(entries \ {newest})

\* Array.prototype.slice(0, n)
Slice(seq, n) == SubSeq(seq, 1, IF Len(seq) < n THEN Len(seq) ELSE n)

\* the directory as a request finds it
TodoDirNow == [there |-> todoDirExists, files |-> todoDir]

\* a file of the listing that has not been named by readdir
NotListed == [pc |-> "none", mtime |-> 0, taskCount |-> 0]

\* a listing that keeps the sessions without tasks
SessionsResultUnfiltered(sessions) ==
    LET sorted == SortDescending({[filename |-> e.filename, mtime |-> e.lastUpdated,
                                   taskCount |-> e.taskCount] : e \in sessions})
    IN  Slice([i \in DOMAIN sorted |->
                  [filename |-> sorted[i].filename, lastUpdated |-> sorted[i].mtime,
                   taskCount |-> sorted[i].taskCount]], SessionsLimit)

\* listSessions, after Promise.all: filter, sort, slice
SessionsResult(sessions) ==
    LET withTasks == {e \in sessions : e.taskCount > 0}
        sorted == SortDescending({[filename |-> e.filename, mtime |-> e.lastUpdated,
                                   taskCount |-> e.taskCount] : e \in withTasks})
    IN  Slice([i \in DOMAIN sorted |->
                  [filename |-> sorted[i].filename, lastUpdated |-> sorted[i].mtime,
                   taskCount |-> sorted[i].taskCount]], SessionsLimit)

\* GET /api/sessions answers with what listSessions returned
SessionsRespond(s, sessions) ==
    /\ sessionLists' = sessionLists \ {s}
    /\ call' = [fn |-> "listSessions", done |-> TRUE, input |-> s.dir,
                output |-> [status |-> 200, body |-> sessions]]
    /\ UNCHANGED <<events, now, planVars, hubVars, todoVars, sessionLoads, planLists>>

\* a client requests the sessions; listSessions runs up to its first await
SessionsRequest ==
    /\ events' = events + 1
    /\ sessionLists' = sessionLists \cup
          {[id |-> events + 1, pc |-> "readdir", dir |-> TodoDirNow,
            per |-> [f \in TodoFiles |-> NotListed]]}
    /\ UNCHANGED <<now, planVars, hubVars, todoVars, sessionLoads, planLists, call>>

\* listSessions: await fs.readdir resolves or throws; every name of the
\* directory ends in .json; the mapped function runs for each up to its
\* fs.stat, and Promise.all of no promise resolves at once
ListSessionsReaddir ==
  \E s \in sessionLists :
    /\ s.pc = "readdir"
    /\ LET jsonFiles == {f \in TodoFiles : todoDir[f].exists}
       IN  IF ~todoDirExists \/ jsonFiles = {}
           THEN SessionsRespond(s, <<>>)
           ELSE /\ sessionLists' = (sessionLists \ {s}) \cup
                       {[s EXCEPT !.pc = "files",
                                  !.per = [f \in TodoFiles |->
                                             IF f \in jsonFiles
                                             THEN [NotListed EXCEPT !.pc = "stat"]
                                             ELSE NotListed]]}
                /\ UNCHANGED <<events, now, planVars, hubVars, todoVars, sessionLoads,
                               planLists, call>>

\* listSessions, one file: await fs.stat resolves, or throws and Promise.all
\* rejects into the catch
ListSessionsStat ==
  \E s \in sessionLists, f \in TodoFiles :
    /\ s.pc = "files"
    /\ s.per[f].pc = "stat"
    /\ IF ~todoDir[f].exists
       THEN SessionsRespond(s, <<>>)
       ELSE /\ sessionLists' = (sessionLists \ {s}) \cup
                   {[s EXCEPT !.per[f] = [pc |-> "readFile", mtime |-> todoDir[f].mtime,
                                          taskCount |-> 0]]}
            /\ UNCHANGED <<events, now, planVars, hubVars, todoVars, sessionLoads,
                           planLists, call>>

\* mutant: the mapped function catches its own failure and its file is left
\* out of the listing
ListSessionsReadFileSkipping ==
  \E s \in sessionLists, f \in TodoFiles :
    /\ s.pc = "files"
    /\ s.per[f].pc = "readFile"
    /\ LET todos == todoDir[f].json
           per == [s.per EXCEPT ![f] =
                     IF ~todoDir[f].exists \/ ~todos.parses THEN NotListed
                     ELSE [pc |-> "done", mtime |-> @.mtime,
                           taskCount |-> IF todos.isArray THEN Len(todos.items) ELSE 0]]
       IN  IF \A g \in TodoFiles : per[g].pc \in {"none", "done"}
           THEN SessionsRespond(s,
                   SessionsResult({[filename |-> g, lastUpdated |-> per[g].mtime,
                                    taskCount |-> per[g].taskCount]
                                   : g \in {h \in TodoFiles : per[h].pc = "done"}}))
           ELSE /\ sessionLists' = (sessionLists \ {s}) \cup {[s EXCEPT !.per = per]}
                /\ UNCHANGED <<events, now, planVars, hubVars, todoVars, sessionLoads,
                               planLists, call>>

\* listSessions, one file: await fs.readFile resolves or throws, then
\* JSON.parse; when it was the last file Promise.all resolves
ListSessionsReadFile ==
  \E s \in sessionLists, f \in TodoFiles :
    /\ s.pc = "files"
    /\ s.per[f].pc = "readFile"
    /\ IF ~todoDir[f].exists \/ ~todoDir[f].json.parses
       THEN SessionsRespond(s, <<>>)
       ELSE LET todos == todoDir[f].json
                per == [s.per EXCEPT ![f] =
                          [pc |-> "done", mtime |-> @.mtime,
                           taskCount |-> IF todos.isArray THEN Len(todos.items) ELSE 0]]
            IN  IF \A g \in TodoFiles : per[g].pc \in {"none", "done"}
                THEN SessionsRespond(s,
                        SessionsResult({[filename |-> g, lastUpdated |-> per[g].mtime,
                                         taskCount |-> per[g].taskCount]
                                        : g \in {h \in TodoFiles : per[h].pc = "done"}}))
                ELSE /\ sessionLists' = (sessionLists \ {s}) \cup {[s EXCEPT !.per = per]}
                     /\ UNCHANGED <<events, now, planVars, hubVars, todoVars, sessionLoads,
                                    planLists, call>>

\* the directory as a request finds it
PlanDirNow == [there |-> planDirExists, files |-> planDir]

\* the orders in which fs.readdir can name the files of a set
Orders(files) ==
    {order \in [1..Cardinality(files) -> files] :
        \A i, j \in DOMAIN order : i # j => order[i] # order[j]}

\* the request is GET /api/plans, which names no file
NoFilename == ""

\* GET /api/plans/:filename after listPlans: plans.find, 404 when no plan
\* has the name, else the plan (with parsed, the outline parsePlan computes
\* from plan.content alone)
GetPlan(plans, filename) ==
    LET found == {i \in DOMAIN plans : plans[i].filename = filename}
    IN  IF found = {} THEN NotFound("Plan not found")
        ELSE [status |-> 200,
              body |-> plans[CHOOSE i \in found : \A j \in found : i <= j]]

\* GET /api/plans answers with what listPlans returned, and
\* GET /api/plans/:filename with the plan of that name in it
PlansRespond(l, plans) ==
    /\ planLists' = planLists \ {l}
    /\ call' = IF l.filename = NoFilename
               THEN [fn |-> "listPlans", done |-> TRUE, input |-> l.dir,
                     output |-> [status |-> 200, body |-> plans]]
               ELSE [fn |-> "getPlan", done |-> TRUE,
                     input |-> [dir |-> l.dir, filename |-> l.filename],
                     output |-> GetPlan(plans, l.filename)]
    /\ UNCHANGED <<events, now, planVars, hubVars, todoVars, sessionLoads, sessionLists>>

\* listPlans: return plans.sort(...); a plan's path is its file name under
\* the directory and is left out
PlansResult(plans) ==
    LET sorted == SortDescending({[filename |-> e.filename, mtime |-> e.lastModified,
                                   content |-> e.content] : e \in Range(plans)})
    IN  [i \in DOMAIN sorted |->
            [filename |-> sorted[i].filename, content |-> sorted[i].content,
             lastModified |-> sorted[i].mtime]]

\* a client requests the plans; listPlans runs up to its first await
PlansRequest ==
    /\ events' = events + 1
    /\ planLists' = planLists \cup
          {[id |-> events + 1, filename |-> NoFilename, pc |-> "readdir",
            dir |-> PlanDirNow, mdFiles |-> <<>>, content |-> EmptyContent,
            plans |-> <<>>]}
    /\ UNCHANGED <<now, planVars, hubVars, todoVars, sessionLoads, sessionLists, call>>

\* a client requests one plan by its file name; the handler calls listPlans,
\* which runs up to its first await
PlanRequest ==
  \E filename \in PlanFiles :
    /\ events' = events + 1
    /\ planLists' = planLists \cup
          {[id |-> events + 1, filename |-> filename, pc |-> "readdir",
            dir |-> PlanDirNow, mdFiles |-> <<>>, content |-> EmptyContent,
            plans |-> <<>>]}
    /\ UNCHANGED <<now, planVars, hubVars, todoVars, sessionLoads, sessionLists, call>>

\* listPlans: await fs.readdir resolves or throws; every name of the
\* directory ends in .md; the loop runs up to the first fs.readFile
ListPlansReaddir ==
  \E l \in planLists :
    /\ l.pc = "readdir"
    /\ LET files == {f \in PlanFiles : planDir[f].exists}
       IN  IF ~planDirExists \/ files = {}
           THEN PlansRespond(l, <<>>)
           ELSE /\ \E order \in Orders(files) :
                      planLists' = (planLists \ {l}) \cup
                          {[l EXCEPT !.pc = "readFile", !.mdFiles = order]}
                /\ UNCHANGED <<events, now, planVars, hubVars, todoVars, sessionLoads,
                               sessionLists, call>>

\* mutant: a file that cannot be read is skipped and the loop goes on
ListPlansReadFileSkipping ==
  \E l \in planLists :
    /\ l.pc = "readFile"
    /\ LET file == Head(l.mdFiles)
       IN  IF planDir[file].exists
           THEN /\ planLists' = (planLists \ {l}) \cup
                       {[l EXCEPT !.pc = "stat", !.content = planDir[file].content]}
                /\ UNCHANGED <<events, now, planVars, hubVars, todoVars, sessionLoads,
                               sessionLists, call>>
           ELSE IF Tail(l.mdFiles) = <<>> THEN PlansRespond(l, PlansResult(l.plans))
           ELSE /\ planLists' = (planLists \ {l}) \cup {[l EXCEPT !.mdFiles = Tail(@)]}
                /\ UNCHANGED <<events, now, planVars, hubVars, todoVars, sessionLoads,
                               sessionLists, call>>

\* listPlans: await fs.readFile resolves, or throws into the catch
ListPlansReadFile ==
  \E l \in planLists :
    /\ l.pc = "readFile"
    /\ LET file == Head(l.mdFiles)
       IN  IF ~planDir[file].exists
           THEN PlansRespond(l, <<>>)
           ELSE /\ planLists' = (planLists \ {l}) \cup
                       {[l EXCEPT !.pc = "stat", !.content = planDir[file].content]}
                /\ UNCHANGED <<events, now, planVars, hubVars, todoVars, sessionLoads,
                               sessionLists, call>>

\* listPlans: await fs.stat resolves, or throws into the catch; the plan is
\* pushed and the loop goes on to the next file or to the sort
ListPlansStat ==
  \E l \in planLists :
    /\ l.pc = "stat"
    /\ LET file == Head(l.mdFiles)
           plans == Append(l.plans, [filename |-> file, content |-> l.content,
                                     lastModified |-> planDir[file].mtime])
       IN  IF ~planDir[file].exists THEN PlansRespond(l, <<>>)
           ELSE IF Tail(l.mdFiles) = <<>> THEN PlansRespond(l, PlansResult(plans))
           ELSE /\ planLists' = (planLists \ {l}) \cup
                       {[l EXCEPT !.pc = "readFile", !.mdFiles = Tail(@),
                                  !.content = EmptyContent, !.plans = plans]}
                /\ UNCHANGED <<events, now, planVars, hubVars, todoVars, sessionLoads,
                               sessionLists, call>>

(***************************************************************************)
(* Plan outline: parsers/markdown.ts                                       *)
(***************************************************************************)
UpperCase == <<"A", "B", "C", "D", "E", "F", "G", "H", "I", "J", "K", "L", "M",
               "N", "O", "P", "Q", "R", "S", "T", "U", "V", "W", "X", "Y", "Z">>
LowerCase == <<"a", "b", "c", "d", "e", "f", "g", "h", "i", "j", "k", "l", "m",
               "n", "o", "p", "q", "r", "s", "t", "u", "v", "w", "x", "y", "z">>
Digits == {"0", "1", "2", "3", "4", "5", "6", "7", "8", "9"}

\* title.toLowerCase()
toLowerCase(chars) ==
    [i \in DOMAIN chars |->
        IF \E k \in DOMAIN UpperCase : UpperCase[k] = chars[i]
        THEN LowerCase[CHOOSE k \in DOMAIN UpperCase : UpperCase[k] = chars[i]]
        ELSE chars[i]]

\* [a-z0-9]
IsIdChar(c) == c \in Range(LowerCase) \cup Digits

\* mutant: every character outside [a-z0-9] becomes a hyphen of its own
RECURSIVE ReplaceEachChar(_)
ReplaceEachChar(chars) ==
    IF chars = <<>> THEN <<>>
    ELSE <<IF IsIdChar(chars[1]) THEN chars[1] ELSE "-">> \o ReplaceEachChar(Tail(chars))

\* .replace(/[^a-z0-9]+/g, '-')
RECURSIVE ReplaceRuns(_)
ReplaceRuns(chars) ==
    IF chars = <<>> THEN <<>>
    ELSE IF IsIdChar(chars[1]) THEN <<chars[1]>> \o ReplaceRuns(Tail(chars))
    ELSE LET rest == Tail(chars)
             run == IF \A i \in DOMAIN rest : ~IsIdChar(rest[i]) THEN Len(rest)
                    ELSE (CHOOSE i \in DOMAIN rest :
                              IsIdChar(rest[i]) /\ \A j \in 1..(i - 1) : ~IsIdChar(rest[j])) - 1
         IN  <<"-">> \o ReplaceRuns(SubSeq(rest, run + 1, Len(rest)))

\* id: title.toLowerCase().replace(/[^a-z0-9]+/g, '-')
SectionId(title) == ReplaceRuns(toLowerCase(title))

\* \s
Spaces == {" ", "\t"}
IsSpace(c) == c \in Spaces

\* the length of the longest prefix of chars made of characters of the set
RECURSIVE PrefixLen(_, _)
PrefixLen(chars, set) ==
    IF chars = <<>> \/ chars[1] \notin set THEN 0 ELSE 1 + PrefixLen(Tail(chars), set)

\* line.match(/^(#{1,6})\s+(.+)$/): one to six #, white space that leaves
\* the title at least one character, the title up to the end of the line
HeadingMatch(line) ==
    LET hashes == PrefixLen(line, {"#"})
        after == SubSeq(line, hashes + 1, Len(line))
        spaces == PrefixLen(after, Spaces)
        rest == SubSeq(after, spaces + 1, Len(after))
    IN  IF hashes \in 1..6 /\ spaces >= 1 /\ rest # <<>>
        THEN [matched |-> TRUE, level |-> hashes, title |-> rest]
        ELSE IF hashes \in 1..6 /\ spaces >= 2
        THEN [matched |-> TRUE, level |-> hashes, title |-> <<after[spaces]>>]
        ELSE [matched |-> FALSE, level |-> 0, title |-> <<>>]

\* line.match(/^\d+\.\s/) || line.match(/^[-*]\s/)
IsStepLine(line) ==
    LET digits == PrefixLen(line, Digits)
    IN  \/ digits >= 1 /\ Len(line) >= digits + 2
           /\ line[digits + 1] = "." /\ IsSpace(line[digits + 2])
        \/ Len(line) >= 2 /\ line[1] \in {"-", "*"} /\ IsSpace(line[2])

\* .trim()
RECURSIVE trim(_)
trim(chars) ==
    IF chars = <<>> THEN chars
    ELSE IF IsSpace(chars[1]) THEN trim(Tail(chars))
    ELSE IF IsSpace(chars[Len(chars)]) THEN trim(SubSeq(chars, 1, Len(chars) - 1))
    ELSE chars

\* line.replace(/^(\d+\.|-|\*)\s*/, '').trim(), for a step line
StepOf(line) ==
    LET digits == PrefixLen(line, Digits)
        marker == IF digits >= 1 THEN digits + 1 ELSE 1
    IN  trim(SubSeq(line, marker + 1, Len(line)))

\* "Save previous section": the section, with its content joined, is pushed
SaveSection(sections, currentSection, currentContent) ==
    IF currentSection.null THEN sections
    ELSE Append(sections, [level   |-> currentSection.level,
                           title   |-> currentSection.title,
                           content |-> Join(currentContent, "\n"),
                           id      |-> currentSection.id])

\* the loop over the lines, from line i on, and "Save last section"
RECURSIVE ScanLines(_, _, _, _, _, _)
ScanLines(lines, i, sections, currentSection, currentContent, steps) ==
    IF i > Len(lines)
    THEN [sections |-> SaveSection(sections, currentSection, currentContent),
          steps |-> steps]
    ELSE LET headingMatch == HeadingMatch(lines[i])
         IN  IF headingMatch.matched
             THEN ScanLines(lines, i + 1,
                            SaveSection(sections, currentSection, currentContent),
                            [null |-> FALSE, level |-> headingMatch.level,
                             title |-> headingMatch.title,
                             id |-> SectionId(headingMatch.title)],
                            <<>>, steps)
             ELSE IF ~currentSection.null
             THEN ScanLines(lines, i + 1, sections, currentSection,
                            Append(currentContent, lines[i]),
                            IF IsStepLine(lines[i]) /\ StepOf(lines[i]) # <<>>
                            THEN Append(steps, StepOf(lines[i])) ELSE steps)
             ELSE ScanLines(lines, i + 1, sections, currentSection, currentContent, steps)

\* parsePlan: the sections and the steps (the html is the work of marked)
parsePlan(markdown) ==
    ScanLines(Split(markdown, "\n"), 1, <<>>,
              [null |-> TRUE, level |-> 0, title |-> <<>>, id |-> <<>>], <<>>, <<>>)

(***************************************************************************)
(* Command line: cli.ts                                                    *)
(***************************************************************************)
\* the arguments the scan knows
PlanArg == <<"p", "l", "a", "n">>
TodoArg == <<"t", "o", "d", "o">>
HelpArg == <<"-", "-", "h", "e", "l", "p">>
HArg    == <<"-", "h">>
PortArg == <<"-", "-", "p", "o", "r", "t">>

\* a JavaScript number that is NaN or an integer
NaN == [nan |-> TRUE, value |-> 0]
Num(n) == [nan |-> FALSE, value |-> n]

\* the value of a string of decimal digits
DigitValue(c) == CHOOSE d \in 0..9 : <<"0", "1", "2", "3", "4", "5", "6", "7", "8", "9">>[d + 1] = c
RECURSIVE DigitsValue(_)
DigitsValue(chars) ==
    IF chars = <<>> THEN 0
    ELSE 10 * DigitsValue(SubSeq(chars, 1, Len(chars) - 1)) + DigitValue(chars[Len(chars)])

\* parseInt(string, 10): leading white space is skipped, a sign is taken,
\* then the longest run of decimal digits; NaN when there is no digit
parseInt(string) ==
    LET trimmed == SubSeq(string, PrefixLen(string, Spaces) + 1, Len(string))
        signed == trimmed # <<>> /\ trimmed[1] \in {"+", "-"}
        rest == IF signed THEN Tail(trimmed) ELSE trimmed
        digits == SubSeq(rest, 1, PrefixLen(rest, Digits))
    IN  IF digits = <<>> THEN NaN
        ELSE IF signed /\ trimmed[1] = "-" THEN Num(0 - DigitsValue(digits))
        ELSE Num(DigitsValue(digits))

\* a scan that passes over the arguments it does not know
ArgKindLenient(args, i) ==
    IF args[i] = PortArg /\ i < Len(args) /\ args[i + 1] # <<>> THEN "port"
    ELSE IF args[i] \in {PlanArg, TodoArg} THEN "view"
    ELSE IF args[i] \in {HelpArg, HArg} THEN "help"
    ELSE "skip"

\* the branch the loop takes for args[i]; args[i + 1] is falsy when it is
\* past the end or the empty string
ArgKind(args, i) ==
    IF args[i] = PortArg /\ i < Len(args) /\ args[i + 1] # <<>> THEN "port"
    ELSE IF args[i] \in {PlanArg, TodoArg} THEN "view"
    ELSE IF args[i] \in {HelpArg, HArg} THEN "help"
    ELSE IF args[i] # PortArg THEN "unknown"
    ELSE "skip"

\* the loop over the arguments from index i on: it ends in process.exit or
\* falls through with the view and the port
RECURSIVE ScanArgs(_, _, _, _)
ScanArgs(args, i, view, port) ==
    IF i > Len(args) THEN [exited |-> FALSE, status |-> 0, view |-> view, port |-> port]
    ELSE CASE ArgKind(args, i) = "port" ->
                  ScanArgs(args, i + 2, view, parseInt(args[i + 1]))
           [] ArgKind(args, i) = "view" -> ScanArgs(args, i + 1, args[i], port)
           [] ArgKind(args, i) = "help" ->
                  [exited |-> TRUE, status |-> 0, view |-> view, port |-> port]
           [] ArgKind(args, i) = "unknown" ->
                  [exited |-> TRUE, status |-> 1, view |-> view, port |-> port]
           [] OTHER -> ScanArgs(args, i + 1, view, port)

\* a validation that has no upper limit
PortInvalidNoLimit(port) == port.nan \/ port.value < 1

\* isNaN(port) || port < 1 || port > 65535
PortInvalid(port) == port.nan \/ port.value < 1 \/ port.value > MaxPort

\* process.env.PORT: undefined, or a string
NoEnv == [set |-> FALSE, value |-> <<>>]
Env(value) == [set |-> TRUE, value |-> value]

\* cli.ts from process.argv to startServer(port) or process.exit
Cli(args, env) ==
    LET scan == ScanArgs(args, 1, <<>>, Num(DefaultPort))
        port == IF env.set /\ env.value # <<>> /\ PortArg \notin Range(args)
                THEN parseInt(env.value) ELSE scan.port
    IN  IF scan.exited
        THEN [exited |-> TRUE, status |-> scan.status, started |-> FALSE, port |-> scan.port]
        ELSE IF PortInvalid(port)
        THEN [exited |-> TRUE, status |-> 1, started |-> FALSE, port |-> port]
        ELSE [exited |-> FALSE, status |-> 0, started |-> TRUE, port |-> port]

(***************************************************************************)
(* Specifications                                                          *)
(***************************************************************************)
\* the server as startServer leaves it, before either watcher's start() has
\* passed its first await; each directory is there or not
StartState(plansDirThere, todoDirThere) ==
    /\ events = 0
    /\ now = 0
    /\ planDirExists = plansDirThere
    /\ planDirCreated = FALSE
    /\ planDir = [f \in PlanFiles |-> [exists |-> FALSE, content |-> 0, mtime |-> 0]]
    /\ planWatcher = "null"
    /\ planReads = {}
    /\ planNotifs = 0
    /\ emitLog = <<>>
    /\ planHistory = <<>>
    /\ clients = <<>>
    /\ opened = 0
    /\ sent = [c \in ClientIds |-> <<>>]
    /\ openedAt = [c \in ClientIds |-> 0]
    /\ closedConns = {}
    /\ bcast = <<>>
    /\ uncaught = FALSE
    /\ todoDirExists = todoDirThere
    /\ todoDir = [f \in TodoFiles |-> [exists |-> FALSE, json |-> MalformedJson, mtime |-> 0]]
    /\ todoWatcher = "null"
    /\ loads = {}
    /\ todoNotifs = 0
    /\ currentState = NoState
    /\ todoWritten = [f \in TodoFiles |-> {}]
    /\ sessionLoads = {}
    /\ planLists = {}
    /\ sessionLists = {}

\* no function has been applied and no request answered
NoCall == [fn |-> "none", done |-> FALSE, input |-> <<>>, output |-> <<>>]

\* each of the two directories is there or not
Init ==
    /\ \E plansDirThere, todoDirThere \in BOOLEAN : StartState(plansDirThere, todoDirThere)
    /\ call = NoCall

\* the plans directory is there; the todos directory is there or not
InitTodos == (\E todoDirThere \in BOOLEAN : StartState(TRUE, todoDirThere)) /\ call = NoCall

\* for the plan pipeline alone the todos directory plays no part
InitPlans == StartState(TRUE, TRUE) /\ call = NoCall

\* the plan pipeline with overlapping reads, and stream clients
NextPlan ==
    \/ PlanStart
    \/ PlanReadFile
    \/ PlanStat
    \/ events < MaxPlanEvents /\ PlanWrite
    \/ events < MaxPlanEvents /\ PlanDelete
    \/ events < MaxPlanEvents /\ PlanStop
    \/ events < MaxPlanEvents /\ StreamOpen
    \/ events < MaxPlanEvents /\ StreamClose

SpecPlan == InitPlans /\ [][NextPlan]_vars

\* sequential modifications in volume: the next event waits for the read in
\* flight, and the watcher is started on the empty directory
NextHub ==
    \/ PlanStart
    \/ PlanReadFile
    \/ PlanStat
    \/ events < MaxHubEvents /\ planWatcher = "watching" /\ planReads = {} /\ PlanWrite
    \/ events < MaxHubEvents /\ planWatcher = "watching" /\ planReads = {} /\ PlanDelete

SpecHub == InitPlans /\ [][NextHub]_vars

\* a function about to be applied to an input
Pending(fn, input) == [fn |-> fn, done |-> FALSE, input |-> input, output |-> <<>>]

\* a TodoState of c completed, i in-progress and p pending tasks
StatsTask(status) ==
    [content |-> <<"D", "o">>, activeForm |-> <<"D", "o", "i", "n", "g", " ">>,
     status |-> status, timestamp |-> 1]
StatsState(c, i, p) ==
    [sessionId |-> <<"a">>,
     tasks |-> [k \in 1..(c + i + p) |->
                  StatsTask(IF k <= c THEN "completed"
                            ELSE IF k <= c + i THEN "in_progress" ELSE "pending")],
     lastUpdated |-> 1]
StatsInputs ==
    {StatsState(n[1], n[2], n[3]) :
        n \in {m \in (0..MaxTasks) \X (0..MaxTasks) \X (0..MaxTasks) :
                  m[1] + m[2] + m[3] <= MaxTasks}}

\* GET /api/todos/stats: calculateStats of a state
CalculateStats ==
    /\ call.fn = "calculateStats" /\ ~call.done
    /\ call' = [call EXCEPT !.done = TRUE, !.output = calculateStats(call.input)]
    /\ UNCHANGED <<events, now, planVars, hubVars, todoVars, sessionLoads, planLists,
                   sessionLists>>

\* the sequences of at most n elements of S
SeqsUpTo(S, n) == UNION {[1..k -> S] : k \in 0..n}

\* task contents: every short text of these characters, and the examples
\* "Write tests", "Run build" and "Write"
ContentInputs ==
    SeqsUpTo({"r", "u", "e", " "}, MaxContentLen)
        \cup {<<"W", "r", "i", "t", "e", " ", "t", "e", "s", "t", "s">>,
              <<"R", "u", "n", " ", "b", "u", "i", "l", "d">>,
              <<"W", "r", "i", "t", "e">>}

\* a task is mapped: generateActiveForm of its content
GenerateActiveForm ==
    /\ call.fn = "generateActiveForm" /\ ~call.done
    /\ call' = [call EXCEPT !.done = TRUE, !.output = generateActiveForm(call.input)]
    /\ UNCHANGED <<events, now, planVars, hubVars, todoVars, sessionLoads, planLists,
                   sessionLists>>

\* markdown documents: every document of a few of these lines, and every
\* one-line document of a heading with a short title of these characters
PlanLines ==
    {<<"#", " ", "S", "t", "e", "p", " ", "1", ":", " ", "B", "u", "i", "l", "d", "!">>,
     <<"#", "#", " ", "b">>, <<>>, <<"-", " ", "x">>, <<"a">>}
TitleChars == {"A", "b", "1", " ", "!", "-"}
MarkdownInputs ==
    {Join(lines, "\n") : lines \in SeqsUpTo(PlanLines, MaxLines)}
        \cup {<<"#", " ">> \o title : title \in SeqsUpTo(TitleChars, MaxTitleLen)}

\* GET /api/plans/:filename: parsePlan of the plan's content
ParsePlan ==
    /\ call.fn = "parsePlan" /\ ~call.done
    /\ call' = [call EXCEPT !.done = TRUE, !.output = parsePlan(call.input)]
    /\ UNCHANGED <<events, now, planVars, hubVars, todoVars, sessionLoads, planLists,
                   sessionLists>>

\* command lines: every list of a few of these arguments, under every one
\* of these values of PORT
CliArgs ==
    {PlanArg, TodoArg, HelpArg, HArg, PortArg,
     <<"i", "n", "v", "a", "l", "i", "d", "-", "a", "r", "g">>, <<>>,
     <<"0">>, <<"1">>, <<"6", "5", "5", "3", "5">>, <<"6", "5", "5", "3", "6">>,
     <<"8", "0", "x">>, <<"-", "1">>}
CliEnvs == {NoEnv, Env(<<>>), Env(<<"3", "0", "0", "0">>), Env(<<"6", "5", "5", "3", "6">>),
            Env(<<"x">>)}
CliInputs == {[args |-> args, env |-> env] : args \in SeqsUpTo(CliArgs, MaxArgs), env \in CliEnvs}

\* the command is run
RunCli ==
    /\ call.fn = "cli" /\ ~call.done
    /\ call' = [call EXCEPT !.done = TRUE, !.output = Cli(call.input.args, call.input.env)]
    /\ UNCHANGED <<events, now, planVars, hubVars, todoVars, sessionLoads, planLists,
                   sessionLists>>

\* the pure functions of the program, each applied to every input of a
\* bounded set
InitCalls ==
    /\ StartState(TRUE, TRUE)
    /\ \/ call \in {Pending("calculateStats", state) : state \in StatsInputs}
       \/ call \in {Pending("generateActiveForm", content) : content \in ContentInputs}
       \/ call \in {Pending("parsePlan", markdown) : markdown \in MarkdownInputs}
       \/ call \in {Pending("cli", input) : input \in CliInputs}

NextCalls ==
    \/ CalculateStats
    \/ GenerateActiveForm
    \/ ParsePlan
    \/ RunCli

SpecCalls == InitCalls /\ [][NextCalls]_vars

\* both pipelines feeding the hub and its stream clients; the plan watcher
\* is started on the empty directory, and the next event of the environment
\* waits for the reads and reloads in flight
Quiet == planWatcher = "watching" /\ planReads = {} /\ loads = {}
NextStream ==
    \/ PlanStart
    \/ PlanReadFile
    \/ PlanStat
    \/ TodoStart
    \/ LoadReaddir
    \/ LoadStat
    \/ LoadReadFile
    \/ events < MaxStreamEvents /\ Quiet /\ PlanWrite
    \/ events < MaxStreamEvents /\ Quiet /\ PlanDelete
    \/ events < MaxStreamEvents /\ Quiet /\ TodoWrite
    \/ events < MaxStreamEvents /\ Quiet /\ StreamOpen
    \/ events < MaxStreamEvents /\ Quiet /\ StreamClose

SpecStream == InitPlans /\ [][NextStream]_vars

\* the todo pipeline with overlapping reloads
NextTodo ==
    \/ TodoStart
    \/ LoadReaddir
    \/ LoadStat
    \/ LoadReadFile
    \/ events < MaxTodoEvents /\ TodoWrite
    \/ events < MaxTodoEvents /\ TodoDelete
    \/ events < MaxTodoEvents /\ TodoRmdir
    \/ events < MaxTodoEvents /\ TodoMkdir
    \/ events < MaxTodoEvents /\ SessionRequest
    \/ SessionReadFile
    \/ SessionStat

SpecTodo == InitTodos /\ [][NextTodo]_vars

\* the session listing over a directory the external assistant is writing
NextSessions ==
    \/ events < MaxSessionEvents /\ TodoWrite
    \/ events < MaxSessionEvents /\ TodoWriteEmpty
    \/ events < MaxSessionEvents /\ TodoDelete
    \/ events < MaxSessionEvents /\ TodoRmdir
    \/ events < MaxSessionEvents /\ SessionsRequest
    \/ ListSessionsReaddir
    \/ ListSessionsStat
    \/ ListSessionsReadFile

SpecSessions == InitTodos /\ [][NextSessions]_vars

\* the plan listing beside the plan watcher; the watcher is started on the
\* empty directory and the next write or deletion waits for its reads in
\* flight, while a listing runs at any time
NextPlanList ==
    \/ PlanStart
    \/ PlanReadFile
    \/ PlanStat
    \/ events < MaxListEvents /\ planWatcher = "watching" /\ planReads = {} /\ PlanWrite
    \/ events < MaxListEvents /\ planWatcher = "watching" /\ planReads = {} /\ PlanDelete
    \/ events < MaxListEvents /\ PlansRequest
    \/ ListPlansReaddir
    \/ ListPlansReadFile
    \/ ListPlansStat

SpecPlanList == InitPlans /\ [][NextPlanList]_vars

\* one plan requested by name beside the plan watcher, under the same
\* environment, one request at a time
NextPlanGet ==
    \/ PlanStart
    \/ PlanReadFile
    \/ PlanStat
    \/ events < MaxListEvents /\ planWatcher = "watching" /\ planReads = {} /\ PlanWrite
    \/ events < MaxListEvents /\ planWatcher = "watching" /\ planReads = {} /\ PlanDelete
    \/ events < MaxListEvents /\ planLists = {} /\ PlanRequest
    \/ ListPlansReaddir
    \/ ListPlansReadFile
    \/ ListPlansStat

SpecPlanGet == InitPlans /\ [][NextPlanGet]_vars

\* the initial scan: the external assistant creates plan files before the
\* watcher is started, and afterwards changes and deletes the files that
\* are there
NextScan ==
    \/ PlanStart
    \/ PlanReadFile
    \/ PlanStat
    \/ events < MaxScanEvents /\ planWatcher = "null" /\ PlanWrite
    \/ events < MaxScanEvents /\ planWatcher = "watching" /\ PlanWrite
           /\ \A f \in PlanFiles : planDir'[f].exists => planDir[f].exists
    \/ events < MaxScanEvents /\ planWatcher = "watching" /\ PlanDelete

SpecScan == InitPlans /\ [][NextScan]_vars

\* the whole server: both watchers, the hub and the stream clients, over a
\* plans directory that is there
Next ==
    \/ PlanStart
    \/ PlanReadFile
    \/ PlanStat
    \/ TodoStart
    \/ LoadReaddir
    \/ LoadStat
    \/ LoadReadFile
    \/ events < MaxEvents /\ PlanWrite
    \/ events < MaxEvents /\ PlanDelete
    \/ events < MaxEvents /\ PlanStop
    \/ events < MaxEvents /\ TodoWrite
    \/ events < MaxEvents /\ TodoDelete
    \/ events < MaxEvents /\ TodoRmdir
    \/ events < MaxEvents /\ TodoMkdir
    \/ events < MaxEvents /\ StreamOpen
    \/ events < MaxEvents /\ StreamClose
    \/ events < MaxEvents /\ SessionRequest
    \/ SessionReadFile
    \/ SessionStat

Spec == InitTodos /\ [][Next]_vars

\* no read, reload, load or listing is suspended at an await
Idle ==
    /\ planReads = {}
    /\ loads = {}
    /\ sessionLoads = {}
    /\ planLists = {}
    /\ sessionLists = {}

\* every action of the server and of its environment, the watchers started
\* at any time and the next event of the environment waiting for the work
\* in flight
NextServer ==
    \/ PlanStart
    \/ PlanReadFile
    \/ PlanStat
    \/ TodoStart
    \/ LoadReaddir
    \/ LoadStat
    \/ LoadReadFile
    \/ SessionReadFile
    \/ SessionStat
    \/ ListSessionsReaddir
    \/ ListSessionsStat
    \/ ListSessionsReadFile
    \/ ListPlansReaddir
    \/ ListPlansReadFile
    \/ ListPlansStat
    \/ events < MaxServerEvents /\ Idle /\ PlanWrite
    \/ events < MaxServerEvents /\ Idle /\ PlanDelete
    \/ events < MaxServerEvents /\ Idle /\ PlanStop
    \/ events < MaxServerEvents /\ Idle /\ TodoWrite
    \/ events < MaxServerEvents /\ Idle /\ TodoDelete
    \/ events < MaxServerEvents /\ Idle /\ TodoRmdir
    \/ events < MaxServerEvents /\ Idle /\ TodoMkdir
    \/ events < MaxServerEvents /\ Idle /\ StreamOpen
    \/ events < MaxServerEvents /\ Idle /\ StreamClose
    \/ events < MaxServerEvents /\ Idle /\ SessionRequest
    \/ events < MaxServerEvents /\ Idle /\ SessionsRequest
    \/ events < MaxServerEvents /\ Idle /\ PlansRequest

SpecServer == Init /\ [][NextServer]_vars

(***************************************************************************)
(* Properties                                                              *)
(***************************************************************************)
Last(s) == s[Len(s)]

\* the last n elements of s, all of s when it has fewer
LastN(s, n) == IF Len(s) <= n THEN s ELSE SubSeq(s, Len(s) - n + 1, Len(s))

\* the versions of the created and modified updates the hub has been given
\* for a filename, in the order it was given them
IsVersionOf(filename, message) ==
    /\ message.type = "plan"
    /\ message.data.type # "deleted"
    /\ message.data.file.filename = filename
ReceivedVersions(filename) ==
    LET got == SelectSeq(bcast, LAMBDA m : IsVersionOf(filename, m))
    IN  [i \in DOMAIN got |-> [content   |-> got[i].data.file.content,
                               timestamp |-> got[i].data.timestamp]]

\* C1: every filename's history holds at most 10 versions, whatever the
\* sequence of created, modified and deleted updates.
C1_HistoryAtMostTen ==
    \A f \in DOMAIN planHistory : Len(planHistory[f]) <= MaxVersions

\* C1 witness: a history is full and a version has been evicted from it
C1_Witness ==
    \E f \in DOMAIN planHistory :
        /\ Len(planHistory[f]) = MaxVersions
        /\ Len(ReceivedVersions(f)) > MaxVersions

\* C2: every filename's history is exactly the last min(n, 10) of the n
\* created and modified updates the hub received for it, in arrival order.
C2_HistoryIsLastTenReceived ==
    \A f \in PlanFiles :
        VersionsOf(planHistory, f) = LastN(ReceivedVersions(f), MaxVersions)

\* C2 witness: the oldest version of a file has been evicted, and the
\* history starts with the second one
C2_Witness ==
    \E f \in DOMAIN planHistory :
        /\ Len(ReceivedVersions(f)) = MaxVersions + 1
        /\ planHistory[f][1] = ReceivedVersions(f)[2]

\* C3: the step in which a deleted update is emitted leaves every history
\* unchanged and writes the update as a plan frame to every subscriber.
DeletedEmitted ==
    /\ Len(emitLog') = Len(emitLog) + 1
    /\ Last(emitLog').type = "deleted"
C3_DeleteKeepsHistory ==
    [][DeletedEmitted =>
          /\ planHistory' = planHistory
          /\ Len(bcast') = Len(bcast) + 1
          /\ Last(bcast').type = "plan"
          /\ Last(bcast').data.type = "deleted"
          /\ Last(bcast').data.file.filename = Last(emitLog').filename
          /\ \A c \in Range(clients) :
                sent'[c] = Append(sent[c], Frame(Last(bcast')))]_vars

\* C3 witness: a subscriber has been written the deleted update of a file
\* whose history holds a version
C3_Witness ==
    \E c \in ClientIds : \E i \in DOMAIN sent[c] :
        /\ sent[c][i].data.type = "plan"
        /\ sent[c][i].data.data.type = "deleted"
        /\ VersionsOf(planHistory, sent[c][i].data.data.file.filename) # <<>>

\* C4: for every plan file the updates are emitted in the order in which
\* its add, change and unlink notifications were reported.
C4_EmittedInNotificationOrder ==
    \A i, j \in DOMAIN emitLog :
        (i < j /\ emitLog[i].filename = emitLog[j].filename)
            => emitLog[i].notif < emitLog[j].notif

\* C5: once PlanWatcher.stop() has been called no update is emitted.
C5_NoEmitAfterStop ==
    [][planWatcher = "closed" => emitLog' = emitLog]_vars

\* a loadState invocation returns in this step
LoadEnded(l) == l \in loads /\ \A k \in loads' : k.notif # l.notif

\* ... because its readdir, a stat, its readFile, JSON.parse or the mapping
\* threw (a stat step ends the invocation only by throwing)
LoadFailed(l) ==
    /\ LoadEnded(l)
    /\ \/ l.pc = "readdir" /\ ~todoDirExists
       \/ l.pc = "stat"
       \/ /\ l.pc = "readFile"
          /\ \/ ~todoDir[l.mostRecent].exists
             \/ LoadThrows(todoDir[l.mostRecent].json)

\* C6: a reload that fails at any step leaves the live state as it was.
C6_FailedReloadKeepsState ==
    [][(\E l \in loads : LoadFailed(l)) => currentState' = currentState]_vars

\* C6 witness: the watcher holds the state of a file that has since been
\* rewritten with content that does not load, and every reload has returned
C6_Witness ==
    /\ todoWatcher = "watching"
    /\ loads = {}
    /\ currentState # NoState
    /\ \E f \in TodoFiles :
          /\ currentState.sessionId = SessionId(f)
          /\ todoDir[f].exists
          /\ LoadThrows(todoDir[f].json)
          /\ todoDir[f].mtime > currentState.lastUpdated
          /\ \A g \in TodoFiles \ {f} : ~todoDir[g].exists

\* a state is complete: null, the no-session state, or all the tasks of one
\* content a file has held, under that file's session id and one mtime
Complete(state) ==
    \/ state = NoState
    \/ state.sessionId = NoSession /\ state.tasks = <<>>
    \/ \E f \in TodoFiles : \E json \in todoWritten[f] : \E mtime \in 1..now :
          /\ ~LoadThrows(json)
          /\ state = TodoStateOf(f, mtime, json)

\* C7: whatever a query can observe between the callbacks of a reload is a
\* complete state: never a part of a file's tasks, never the tasks of one file
\* under the session id of another.
C7_LiveStateComplete == Complete(getState)

\* C7 witness: a reload has picked a newer file version and awaits its read
\* while a query still gets the complete state loaded before
C7_Witness ==
    \E l \in loads :
        /\ l.pc = "readFile"
        /\ getState # NoState
        /\ getState.sessionId # NoSession
        /\ l.mtime > getState.lastUpdated

\* the session file of the greatest modification time now in the directory
Present == {f \in TodoFiles : todoDir[f].exists}
Newest == CHOOSE f \in Present : \A g \in Present : todoDir[g].mtime <= todoDir[f].mtime

\* no file has been deleted, and every file holds well-formed tasks
AllWellFormed ==
    /\ todoDirExists
    /\ Present # {}
    /\ \A f \in TodoFiles :
          todoDir[f].mtime > 0 => todoDir[f].exists /\ ~LoadThrows(todoDir[f].json)

\* C8: after several add/change events, once every reload has returned, the
\* live state is the one of the well-formed file of the greatest mtime.
C8_FinalStateIsNewest ==
    (todoWatcher = "watching" /\ loads = {} /\ todoNotifs >= 2 /\ AllWellFormed)
        => currentState = TodoStateOf(Newest, todoDir[Newest].mtime, todoDir[Newest].json)

\* C9: once the file backing the live state is deleted and the watcher is
\* idle, the live state is that of the most recent remaining file, or the
\* no-session state when none remains.
LiveFileDeleted ==
    /\ currentState # NoState
    /\ \E f \in TodoFiles : SessionId(f) = currentState.sessionId /\ ~todoDir[f].exists
C9_LiveFollowsDeletion ==
    (todoWatcher = "watching" /\ loads = {} /\ LiveFileDeleted)
        => IF Present = {}
           THEN currentState.sessionId = NoSession /\ currentState.tasks = <<>>
           ELSE currentState.sessionId = SessionId(Newest)

\* what subscriber c has been written is a run of the broadcasts that
\* starts with the first one after it opened
SentOnlyLaterBroadcasts(c) ==
    \E k \in 0..(Len(bcast) - openedAt[c]) :
        sent[c] = [i \in 1..k |-> Frame(bcast[openedAt[c] + i])]

\* the history endpoint holds the version of every created or modified
\* update broadcast, until 10 later versions of the file have pushed it out
HistoryReflectsBroadcasts ==
    \A k \in DOMAIN bcast :
        (bcast[k].type = "plan" /\ bcast[k].data.type # "deleted") =>
            LET f == bcast[k].data.file.filename
                later == {j \in (k + 1)..Len(bcast) : IsVersionOf(f, bcast[j])}
            IN  Cardinality(later) < MaxVersions =>
                    /\ GetHistory(f).status = 200
                    /\ [content   |-> bcast[k].data.file.content,
                        timestamp |-> bcast[k].data.timestamp]
                           \in Range(GetHistory(f).versions)

\* /api/todos answers with the state of the latest todo broadcast
TodosReflectBroadcasts ==
    \A k \in DOMAIN bcast :
        (bcast[k].type = "todo" /\ \A j \in (k + 1)..Len(bcast) : bcast[j].type # "todo")
            => GetTodos = [status |-> 200, body |-> bcast[k].data]

\* C10: a subscriber that opens /api/stream after a broadcast is never
\* written that update, and a pull query after the broadcast reflects it.
C10_LateSubscriberPullOnly ==
    /\ \A c \in 1..opened : SentOnlyLaterBroadcasts(c)
    /\ HistoryReflectsBroadcasts
    /\ TodosReflectBroadcasts

\* C10 witness: a subscriber opened after a broadcast, is still registered
\* and has not been written it, and the pull query answers with it
C10_Witness ==
    \E c \in Range(clients) :
        /\ openedAt[c] > 0
        /\ Frame(bcast[openedAt[c]]) \notin Range(sent[c])
        /\ \/ bcast[openedAt[c]].type = "todo" /\ GetTodos.status = 200
           \/ /\ bcast[openedAt[c]].type = "plan"
              /\ GetHistory(bcast[openedAt[c]].data.file.filename).status = 200

\* C11: what a connected subscriber has been written is, in the hub's
\* processing order, exactly the run of updates the hub broadcast since the
\* subscriber registered.
C11_FramesInProcessingOrder ==
    \A c \in Range(clients) :
        sent[c] = [i \in 1..(Len(bcast) - openedAt[c]) |-> Frame(bcast[openedAt[c] + i])]

\* C11 witness: a subscriber that registered after a broadcast has been
\* written a plan frame and a todo frame
C11_Witness ==
    \E c \in Range(clients) :
        /\ openedAt[c] > 0
        /\ Len(sent[c]) >= 2
        /\ \E i, j \in DOMAIN sent[c] :
              sent[c][i].data.type = "plan" /\ sent[c][j].data.type = "todo"

\* C12: the subscriber set is the set of connections opened and not yet
\* closed, and a connection is written nothing once its close is processed.
C12_SubscribersAreOpenConnections ==
    [][/\ Range(clients') = (1..opened') \ closedConns'
       /\ \A c \in closedConns : sent'[c] = sent[c]]_vars

\* C12 witness: a connection was written a frame, then closed, and the hub
\* has broadcast again since
C12_Witness ==
    \E c \in closedConns :
        /\ sent[c] # <<>>
        /\ Len(bcast) > openedAt[c] + Len(sent[c])

\* the hub's listener is handed an update in this step: a plan update, or
\* the TodoState a reload has left (null is no TodoState)
PlanEmitted == Len(emitLog') = Len(emitLog) + 1
TodoEmitted ==
    /\ \E l \in loads : l.notif # 0 /\ LoadEnded(l)
    /\ currentState' # NoState

\* in this step the message is written once to every registered subscriber
\* and to nobody else
Delivered(message) ==
    /\ bcast' = Append(bcast, message)
    /\ \A c \in ClientIds :
          sent'[c] = IF c \in Range(clients)
                     THEN Append(sent[c], [data |-> message]) ELSE sent[c]

C14_ReloadNeverFatal == ~uncaught

\* C15: calculateStats counts the tasks and the tasks of each status, and
\* completionPercentage is 0 for no tasks and otherwise 100 * completed /
\* total rounded to the nearest integer (a half rounds up, as Math.round).
C15_StatsPercentageRounded ==
    (call.fn = "calculateStats" /\ call.done) =>
        LET tasks == call.input.tasks
            with(status) == Cardinality({i \in DOMAIN tasks : tasks[i].status = status})
            total == Len(tasks)
        IN  /\ call.output.total = total
            /\ call.output.pending = with("pending")
            /\ call.output.inProgress = with("in_progress")
            /\ call.output.completed = with("completed")
            /\ call.output.completionPercentage =
                   IF total = 0 THEN 0
                   ELSE (200 * with("completed") + total) \div (2 * total)

\* the status the spec gives a task whose external status is the given one
ExpectedStatus(external) ==
    CASE external = "pending" -> "pending"
      [] external = "in_progress" -> "in_progress"
      [] OTHER -> "completed"

\* the tasks of the state are those of a content the file has held, each
\* with the status expected for its external status
StatusesFollow(state, file) ==
    /\ \A i \in DOMAIN state.tasks :
          state.tasks[i].status \in {"pending", "in_progress", "completed"}
    /\ \E json \in todoWritten[file] :
          /\ Len(state.tasks) = Len(json.items)
          /\ \A i \in DOMAIN state.tasks :
                state.tasks[i].status = ExpectedStatus(json.items[i].status)

\* C16: in every TodoState a reload or loadSession produces, a task is
\* pending or in_progress when its external status is, and completed for
\* every other external status.
C16_StatusMapping ==
    /\ (currentState # NoState /\ currentState.sessionId # NoSession) =>
          \E f \in TodoFiles :
              SessionId(f) = currentState.sessionId /\ StatusesFollow(currentState, f)
    /\ (call.fn = "loadSession" /\ call.output.status = 200) =>
          StatusesFollow(call.output.body, call.input)

\* C16 witness: the live state and a loadSession answer both hold a pending
\* task, an in_progress task and a task completed for the status "bogus"
C16_Witness ==
    /\ currentState # NoState
    /\ call.fn = "loadSession" /\ call.output.status = 200
    /\ \A state \in {currentState, call.output.body} :
          /\ Len(state.tasks) = Len(GoodJson.items)
          /\ {state.tasks[i].status : i \in DOMAIN state.tasks}
                 = {"pending", "in_progress", "completed"}
          /\ \E i \in DOMAIN state.tasks :
                 GoodJson.items[i].status = "bogus" /\ state.tasks[i].status = "completed"

\* the inflection of a presumed verb, as the spec gives it
Inflection(word) ==
    LET n == Len(word)
        vowel(c) == c \in {"a", "e", "i", "o", "u"}
    IN  IF n >= 1 /\ word[n] = "e"
        THEN SubSeq(word, 1, n - 1) \o <<"i", "n", "g">>
        ELSE IF n >= 3 /\ ~vowel(word[n - 2]) /\ vowel(word[n - 1]) /\ ~vowel(word[n])
        THEN word \o <<word[n], "i", "n", "g">>
        ELSE word \o <<"i", "n", "g">>

\* C17: activeForm is the content's words, the first one inflected and the
\* others unchanged, joined by single spaces; a one-word content gives
\* exactly the inflected word.
C17_ActiveFormRejoined ==
    (call.fn = "generateActiveForm" /\ call.done) =>
        LET words == Split(call.input, " ")
        IN  call.output = Join(<<Inflection(words[1])>> \o Tail(words), " ")

\* the title of the heading "# Step 1: Build!" and the id the spec gives it
StepTitle == <<"S", "t", "e", "p", " ", "1", ":", " ", "B", "u", "i", "l", "d", "!">>
StepId == <<"s", "t", "e", "p", "-", "1", "-", "b", "u", "i", "l", "d">>

\* C18: the heading "Step 1: Build!" gets the id "step-1-build", and the same
\* title always gets the same id.
C18_StepHeadingId ==
    (call.fn = "parsePlan" /\ call.done) =>
        LET sections == call.output.sections
        IN  /\ \A k \in DOMAIN sections :
                  sections[k].title = StepTitle => sections[k].id = StepId
            /\ \A j, k \in DOMAIN sections :
                  sections[j].title = sections[k].title => sections[j].id = sections[k].id

\* the lower-cased title with every maximal run of characters outside
\* [a-z0-9] replaced by one hyphen: a character of a run is kept, as a
\* hyphen, only when it starts the run
ExpectedId(title) ==
    LET low == toLowerCase(title)
        marks == [i \in DOMAIN low |->
                    [char |-> IF IsIdChar(low[i]) THEN low[i] ELSE "-",
                     keep |-> IsIdChar(low[i]) \/ i = 1 \/ IsIdChar(low[i - 1])]]
        kept == SelectSeq(marks, LAMBDA m : m.keep)
    IN  [i \in DOMAIN kept |-> kept[i].char]

\* C19: a section's id is its lower-cased title with every maximal run of
\* characters outside [a-z0-9] replaced by one hyphen; it holds only
\* [a-z0-9-], never two hyphens in a row, and equal titles get equal ids.
C19_IdCollapsesRuns ==
    (call.fn = "parsePlan" /\ call.done) =>
        LET sections == call.output.sections
        IN  /\ \A k \in DOMAIN sections :
                  LET id == sections[k].id
                  IN  /\ id = ExpectedId(sections[k].title)
                      /\ \A i \in DOMAIN id : IsIdChar(id[i]) \/ id[i] = "-"
                      /\ \A i \in 1..(Len(id) - 1) : ~(id[i] = "-" /\ id[i + 1] = "-")
            /\ \A j, k \in DOMAIN sections :
                  sections[j].title = sections[k].title => sections[j].id = sections[k].id

\* C19 witness: two sections of one document have the same title, with
\* capitals and a run of two characters outside [a-z0-9], and a third
\* section has another title
C19_Witness ==
    /\ call.fn = "parsePlan" /\ call.done
    /\ \E j, k, m \in DOMAIN call.output.sections :
          /\ j # k
          /\ call.output.sections[j].title = StepTitle
          /\ call.output.sections[k].title = StepTitle
          /\ call.output.sections[m].title # StepTitle

\* the lines of the document, those from the first heading on, and the
\* heading lines
DocLines == Split(call.input, "\n")
HeadingAt == {i \in DOMAIN DocLines : HeadingMatch(DocLines[i]).matched}
Stripped ==
    IF HeadingAt = {} THEN <<>>
    ELSE SubSeq(DocLines, CHOOSE i \in HeadingAt : \A j \in HeadingAt : i <= j, Len(DocLines))
\* the line number of the k-th heading; past the last line when there is none
HeadingLine(k) ==
    IF k > Cardinality(HeadingAt) THEN Len(DocLines) + 1
    ELSE CHOOSE i \in HeadingAt : Cardinality({j \in HeadingAt : j <= i}) = k

RECURSIVE Flatten(_)
Flatten(seqs) == IF seqs = <<>> THEN <<>> ELSE seqs[1] \o Flatten(Tail(seqs))

\* every section's heading line followed by the lines of its content; an
\* empty content is written as one empty line, or as no line
WrittenOut(sections, emptyIsLine) ==
    Flatten([k \in DOMAIN sections |->
               <<DocLines[HeadingLine(k)]>> \o
               (IF sections[k].content = <<>> /\ ~emptyIsLine THEN <<>>
                ELSE Split(sections[k].content, "\n"))])

\* C20: the sections are the document's headings in order, each with the
\* lines up to the next heading as its content, and writing out every
\* heading line followed by its content gives back, line for line, the
\* document from its first heading on.
C20_SectionsRoundTrip ==
    (call.fn = "parsePlan" /\ call.done) =>
        LET sections == call.output.sections
        IN  /\ Len(sections) = Cardinality(HeadingAt)
            /\ \A k \in DOMAIN sections :
                  sections[k].content =
                      Join(SubSeq(DocLines, HeadingLine(k) + 1, HeadingLine(k + 1) - 1), "\n")
            /\ \/ WrittenOut(sections, TRUE) = Stripped
               \/ WrittenOut(sections, FALSE) = Stripped

\* the latest request answered was for the session listing
SessionsListed == call.fn = "listSessions" /\ call.done
\* the files the latest listing has an entry for
ListedFiles == {call.output.body[i].filename : i \in DOMAIN call.output.body}
\* a session file that holds an empty array, or a value that is no array
Taskless(f) ==
    /\ todoDir[f].exists
    /\ todoDir[f].json.parses
    /\ ~todoDir[f].json.isArray \/ todoDir[f].json.items = <<>>

\* C21: every entry listSessions returns has taskCount > 0, the length of a
\* non-empty array written to its file; a file that has held an empty array,
\* or a value that is no array, since before the request has no entry.
C21_ListedSessionsHaveTasks ==
    SessionsListed =>
        /\ \A i \in DOMAIN call.output.body :
              LET e == call.output.body[i]
              IN  /\ e.taskCount > 0
                  /\ \E json \in todoWritten[e.filename] :
                        json.parses /\ json.isArray /\ Len(json.items) = e.taskCount
        /\ \A f \in TodoFiles :
              (Taskless(f) /\ call.input.files[f] = todoDir[f]) => f \notin ListedFiles

\* a listing returned an entry while another file, there and well formed,
\* holds an empty array
C21_Witness ==
    /\ SessionsListed
    /\ Len(call.output.body) = 1
    /\ \E f \in TodoFiles :
          /\ todoDir[f].exists
          /\ todoDir[f].json = EmptyArrayJson
          /\ call.input.files[f] = todoDir[f]

\* the session files that hold a non-empty array
WithTasks ==
    {f \in TodoFiles : /\ todoDirExists /\ todoDir[f].exists
                       /\ todoDir[f].json.parses /\ todoDir[f].json.isArray
                       /\ todoDir[f].json.items # <<>>}

\* C22: over a directory that has not changed since the request,
\* listSessions returns exactly the session files with a non-empty task
\* array, each with its modification time and task count, newest first, and
\* at most 50 of them.
C22_SessionsListedExactly ==
    (SessionsListed /\ call.input = TodoDirNow) =>
        LET body == call.output.body
        IN  /\ Len(body) <= SessionsLimit
            /\ Cardinality(WithTasks) <= SessionsLimit => ListedFiles = WithTasks
            /\ \A i, j \in DOMAIN body :
                  /\ i < j => body[i].lastUpdated >= body[j].lastUpdated
                  /\ i # j => body[i].filename # body[j].filename
            /\ \A i \in DOMAIN body :
                  /\ body[i].filename \in WithTasks
                  /\ body[i].lastUpdated = todoDir[body[i].filename].mtime
                  /\ body[i].taskCount = Len(todoDir[body[i].filename].json.items)

\* the latest request answered was for the plan listing
PlansListed == call.fn = "listPlans" /\ call.done
\* a plan file that has been in the directory, untouched, since the request
Untouched(f) == planDir[f].exists /\ call.input.files[f] = planDir[f]

\* C25: listPlans returns one entry, with the file's content and
\* modification time, for every plan file that has been in the directory
\* untouched since the request, and its entries are ordered newest first.
C25_PlansListedFresh ==
    PlansListed =>
        LET body == call.output.body
        IN  /\ \A f \in PlanFiles :
                  Untouched(f) =>
                      \E i \in DOMAIN body :
                          /\ body[i].filename = f
                          /\ body[i].content = planDir[f].content
                          /\ body[i].lastModified = planDir[f].mtime
                          /\ \A j \in DOMAIN body : body[j].filename = f => j = i
            /\ \A i, j \in DOMAIN body :
                  i < j => body[i].lastModified >= body[j].lastModified

\* a step of a loadSession invocation
LoadSessionStep == sessionLoads' # sessionLoads

\* C23: no step of loadSession, started, suspended or answering with a
\* session or with not-found, and whatever reloads are in flight, changes the
\* Todo Watcher's live state, its reloads or its watcher, or sends or logs
\* an update.
C23_LoadSessionLeavesLiveState ==
    [][LoadSessionStep =>
          /\ currentState' = currentState
          /\ loads' = loads
          /\ todoWatcher' = todoWatcher
          /\ todoNotifs' = todoNotifs
          /\ bcast' = bcast
          /\ sent' = sent
          /\ emitLog' = emitLog
          /\ uncaught' = uncaught]_vars

\* a session was loaded and answered while a reload was in flight, and the
\* live state is another state than the session answered
C23_Witness ==
    /\ call.fn = "loadSession" /\ call.done
    /\ call.output.status = 200
    /\ loads # {}
    /\ currentState # NoState
    /\ currentState # call.output.body

\* a parsed value that loadSession can map: an array of task objects
IsTaskArray(json) ==
    /\ json.parses
    /\ json.isArray
    /\ \A i \in DOMAIN json.items : ~json.items[i].null

\* the tasks are those of the items, one for one in the same order
InFileOrder(tasks, items) ==
    /\ Len(tasks) = Len(items)
    /\ \A i \in DOMAIN tasks :
          /\ tasks[i].content = items[i].content
          /\ tasks[i].status = ExpectedStatus(items[i].status)

\* the loadSession invocation s is answered in this step
Answered(s) == \A t \in sessionLoads' : t.id # s.id

\* C24: the answer to GET /api/sessions/:filename is 404 with an error body
\* when the file is missing at the answer, or has held since the request a
\* content that is no array of tasks; it is 200 with the tasks of the file
\* in the file's order when the file has held an array of tasks since the
\* request; and every 200 carries the tasks of a content the file has held,
\* in that content's order.
C24_LoadSessionAnswer ==
    [][\A s \in sessionLoads :
          Answered(s) =>
              LET f == s.filename
                  out == call'.output
                  untouched == todoDir[f].exists /\ s.file = todoDir[f]
              IN  /\ call'.fn = "loadSession" /\ call'.done /\ call'.input = f
                  /\ out.status \in {200, 404}
                  /\ out.status = 404 => out.body = [error |-> "Session not found"]
                  /\ ~todoDir[f].exists => out.status = 404
                  /\ (untouched /\ ~IsTaskArray(todoDir[f].json)) => out.status = 404
                  /\ (untouched /\ IsTaskArray(todoDir[f].json)) =>
                        /\ out.status = 200
                        /\ InFileOrder(out.body.tasks, todoDir[f].json.items)
                  /\ out.status = 200 =>
                        \E json \in todoWritten[f] :
                            IsTaskArray(json) /\ InFileOrder(out.body.tasks, json.items)]_vars

\* a session file that is there and parses, and holds an array with an item
\* that is no task, was answered with 404
C24_Witness ==
    /\ call.fn = "loadSession" /\ call.done
    /\ call.output.status = 404
    /\ todoDir[call.input].exists
    /\ todoDir[call.input].json = BadItemJson

\* the state of the Todo Watcher has been set
LiveStateSet == currentState # NoState

\* what the two endpoints answer in a state of the watcher
EndpointsAnswer ==
    /\ GetTodos.status = (IF LiveStateSet THEN 200 ELSE 404)
    /\ GetTodosStats.status = GetTodos.status
    /\ LiveStateSet =>
          /\ GetTodos.body = currentState
          /\ GetTodosStats.body = calculateStats(currentState)
          /\ GetTodosStats.body.total = Len(currentState.tasks)
    /\ ~LiveStateSet =>
          /\ GetTodos.body = [error |-> "No todo state available"]
          /\ GetTodosStats.body = GetTodos.body

\* C26: once the Todo Watcher has set a live state it stays set; GET
\* /api/todos and GET /api/todos/stats answer 404 with an error body while
\* it has never been set and 200 with the live state, respectively its
\* stats, once it has, so that the two agree on 404 versus success.
C26_TodoEndpointsAgree ==
    /\ []EndpointsAnswer
    /\ [][LiveStateSet => LiveStateSet']_vars

\* the live state has been set and holds tasks
C26_Witness ==
    /\ LiveStateSet
    /\ currentState.tasks # <<>>
    /\ GetTodosStats.body.total > 0

\* the step in which TodoWatcher.start() finds no todos directory
TodoStartsWithoutDir == todoWatcher = "null" /\ todoWatcher' # "null" /\ ~todoDirExists
\* the step in which PlanWatcher.start() finds no plans directory
PlanStartsWithoutDir == planWatcher = "null" /\ planWatcher' # "null" /\ ~planDirExists

\* what a start without its directory does, and what follows the creation
\* of the plans directory
StartsWithoutDir ==
    /\ TodoStartsWithoutDir =>
          /\ todoWatcher' = "absent"
          /\ ~todoDirExists'
          /\ todoDir' = todoDir
          /\ currentState' = NoState
    /\ PlanStartsWithoutDir =>
          /\ planDirExists'
          /\ planWatcher' = "watching"
          /\ planDir' = planDir
    /\ (planDirCreated /\ planWatcher = "watching" /\ planDir' # planDir) =>
          planNotifs' = planNotifs + 1

\* C27: a Todo Watcher started without its directory returns without
\* creating it, without a watcher or a reload and with the live state
\* absent, and that stays so with no exception uncaught and GET /api/todos
\* answering 404; a Plan Watcher started without its directory creates it,
\* empty, and watches: every later change of a plan file is reported.
C27_MissingDirectories ==
    /\ [](todoWatcher = "absent" =>
             /\ currentState = NoState
             /\ loads = {}
             /\ ~uncaught
             /\ GetTodos.status = 404)
    /\ [][StartsWithoutDir]_vars

\* the plans directory was created by the start and a plan written to it
\* afterwards has been emitted, while the Todo Watcher, started without its
\* directory, has no state and the directory is still missing
C27_Witness ==
    /\ planDirCreated
    /\ planWatcher = "watching"
    /\ emitLog # <<>>
    /\ todoWatcher = "absent"
    /\ ~todoDirExists
    /\ currentState = NoState

\* a step of the external assistant process on the two directories
ExternalStep ==
    \/ PlanWrite
    \/ PlanDelete
    \/ TodoWrite
    \/ TodoWriteEmpty
    \/ TodoDelete
    \/ TodoRmdir
    \/ TodoMkdir

\* C29: the files of the plans directory and of the todos directory, and
\* the todos directory itself, change only in steps of the external
\* assistant process: no start, read, reload, listing, session load, stream
\* open or close, broadcast or stop of the server changes them.
C29_DirectoriesOnlyRead ==
    [][(planDir' # planDir \/ todoDir' # todoDir \/ todoDirExists' # todoDirExists)
          => ExternalStep]_vars

\* both watchers have been started, a plan has been read and emitted, and
\* the plan listing has been answered, and the plan file is as it was
\* written
C29_Witness ==
    /\ planWatcher = "watching"
    /\ todoWatcher # "null"
    /\ emitLog # <<>>
    /\ call.fn = "listPlans" /\ call.done
    /\ Len(call.output.body) = 1
    /\ \E f \in PlanFiles : planDir[f] = [exists |-> TRUE, content |-> 1, mtime |-> 1]

\* the command has been run
CliRun == call.fn = "cli" /\ call.done
\* the ports the command line and the environment give: the default, the
\* number read from an argument that follows --port, and the number read
\* from PORT when there is no --port
GivenPorts ==
    {Num(DefaultPort)}
        \cup {parseInt(call.input.args[i]) : i \in 2..Len(call.input.args)}
        \cup {parseInt(call.input.env.value)}

\* the argument at index i is the value a --port before it takes
RECURSIVE Consumed(_, _)
Consumed(args, i) ==
    /\ i > 1
    /\ args[i - 1] = PortArg
    /\ args[i] # <<>>
    /\ ~Consumed(args, i - 1)
\* the scan, if it gets there, stops at index i for help, or for an argument
\* it does not know
StopsForHelp(args, i) == ~Consumed(args, i) /\ args[i] \in {HelpArg, HArg}
StopsForUnknown(args, i) ==
    /\ ~Consumed(args, i)
    /\ args[i] \notin {PlanArg, TodoArg, HelpArg, HArg, PortArg}

\* the scan of the arguments ends neither for help nor for an argument it
\* does not know
ScanPasses(args) ==
    \A i \in DOMAIN args : ~StopsForHelp(args, i) /\ ~StopsForUnknown(args, i)

\* C28: the server is started only with a port that is an integer in
\* 1..65535, given by --port, PORT or the default, and then the process has
\* not exited; when the scan of the arguments has not ended the process,
\* the server is started if the port is such an integer, and for any other
\* port the process exits with status 1 and the server is not started.
C28_ServerStartsOnValidPort ==
    CliRun =>
        LET out == call.output
            valid == ~out.port.nan /\ out.port.value \in 1..65535
        IN  /\ out.started <=> ~out.exited
            /\ out.started => valid /\ out.port \in GivenPorts
            /\ ScanPasses(call.input.args) =>
                  /\ out.port \in GivenPorts
                  /\ valid => out.started
                  /\ ~valid => out.exited /\ out.status = 1

\* --port 65536 was given and the process exited with status 1
C28_Witness ==
    /\ CliRun
    /\ call.input.args = <<PortArg, <<"6", "5", "5", "3", "6">> >>
    /\ call.output.exited /\ call.output.status = 1
    /\ ~call.output.started

\* C30: when the scan of the arguments from left to right reaches, before
\* any --help or -h, an argument that is none of plan, todo, --help, -h,
\* --port and is not the value a --port takes, the process exits with
\* status 1 and the server is not started.
C30_UnknownArgumentExits ==
    CliRun =>
        LET args == call.input.args
        IN  (\E i \in DOMAIN args :
                /\ StopsForUnknown(args, i)
                /\ \A j \in 1..(i - 1) : ~StopsForHelp(args, j))
            => /\ call.output.exited
               /\ call.output.status = 1
               /\ ~call.output.started

\* todo invalid-arg, with a valid PORT, exited with status 1
C30_Witness ==
    /\ CliRun
    /\ call.input.args = <<TodoArg, <<"i", "n", "v", "a", "l", "i", "d", "-", "a", "r", "g">> >>
    /\ call.input.env = Env(<<"3", "0", "0", "0">>)
    /\ call.output.exited /\ call.output.status = 1
    /\ ~call.output.started

\* the notification n has been reported, its handler is no longer
\* suspended, and no update was emitted for it
Dropped(n) ==
    /\ n \in 1..planNotifs
    /\ \A r \in planReads : r.notif # n
    /\ \A k \in DOMAIN emitLog : emitLog[k].notif # n

\* a handler of an add or change ends in this step on a failed read or stat
ReadFails(r) ==
    /\ r \in planReads
    /\ ~planDir[r.filename].exists
    /\ \A t \in planReads' : t.notif # r.notif

\* C31: the step in which the read or the stat of a plan file fails emits
\* nothing, appends to no history and writes to no client, leaves no read
\* for the notification behind and leaves the watcher watching; a
\* notification dropped in this way never produces an update later.
C31_FailedReadDropsEvent ==
    [][/\ \A r \in planReads :
             ReadFails(r) =>
                 /\ emitLog' = emitLog
                 /\ planHistory' = planHistory
                 /\ bcast' = bcast
                 /\ sent' = sent
                 /\ planWatcher' = planWatcher
                 /\ Dropped(r.notif)'
       /\ \A n \in 1..planNotifs : Dropped(n) => Dropped(n)']_vars

\* a notification was dropped, and a later notification was read and its
\* update emitted and recorded
C31_Witness ==
    \E n \in 1..planNotifs :
        /\ Dropped(n)
        /\ \E k \in DOMAIN emitLog :
              /\ emitLog[k].notif > n
              /\ emitLog[k].type \in {"created", "modified"}
              /\ VersionsOf(planHistory, emitLog[k].filename) # <<>>

\* In SpecScan files are created before the start only: the files the
\* started watcher found are those that have been written.
PreExisting == {f \in PlanFiles : planDir[f].content > 0}
\* the created updates emitted for a file
CreatedFor(f) ==
    {k \in DOMAIN emitLog : emitLog[k].filename = f /\ emitLog[k].type = "created"}
\* the handler of the initial add of a file is suspended at an await
InitialRead(f) == \E r \in planReads : r.filename = f /\ r.type = "created"

\* no created update for a file that was not there, at most one for a file
\* that was, and exactly one once the file has been read
OneCreatedEach ==
    planWatcher # "null" =>
        \A f \in PlanFiles :
            /\ Cardinality(CreatedFor(f)) <= 1
            /\ f \notin PreExisting => CreatedFor(f) = {} /\ f \notin DOMAIN planHistory
            /\ (planDir[f].exists /\ ~InitialRead(f)) => Cardinality(CreatedFor(f)) = 1
            /\ \A k \in CreatedFor(f) : emitLog[k].notif <= Cardinality(PreExisting)

\* every initial add has been handled, none failed, and nothing else was
\* reported
ScanProcessed ==
    /\ planWatcher # "null"
    /\ planReads = {}
    /\ planNotifs = Cardinality(PreExisting)
    /\ Len(emitLog) = planNotifs

\* the hub holds one version, the file's content, for each file found
OneVersionEach ==
    ScanProcessed =>
        /\ DOMAIN planHistory = PreExisting
        /\ \A f \in PreExisting :
              /\ Len(planHistory[f]) = 1
              /\ planHistory[f][1].content = planDir[f].content

\* the start reports one add for each file that is there; a later change is
\* handled as modified; a later unlink emits deleted with empty content at
\* once, without a read; a handler emits the kind it was called with
NotificationKinds ==
    /\ (planWatcher = "null" /\ planWatcher' = "watching") =>
          /\ planNotifs' = Cardinality(PreExisting)
          /\ \A f \in PlanFiles :
                Cardinality({r \in planReads' : r.filename = f}) =
                    (IF planDir[f].exists THEN 1 ELSE 0)
          /\ \A r \in planReads' : r.type = "created" /\ r.pc = "readFile"
    /\ (planWatcher = "watching" /\ planNotifs' = planNotifs + 1) =>
          \A f \in PlanFiles :
              /\ (planDir[f].exists /\ ~planDir'[f].exists) =>
                    /\ planReads' = planReads
                    /\ Len(emitLog') = Len(emitLog) + 1
                    /\ emitLog'[Len(emitLog')].type = "deleted"
                    /\ emitLog'[Len(emitLog')].filename = f
                    /\ emitLog'[Len(emitLog')].update.file.content = EmptyContent
              /\ (planDir[f].exists /\ planDir'[f].exists /\ planDir'[f] # planDir[f]) =>
                    /\ emitLog' = emitLog
                    /\ \E r \in planReads' \ planReads :
                          r.type = "modified" /\ r.filename = f /\ r.notif = planNotifs'
    /\ Len(emitLog') = Len(emitLog) + 1 =>
          \/ emitLog'[Len(emitLog')].type = "deleted"
          \/ \E r \in planReads \ planReads' :
                /\ emitLog'[Len(emitLog')].type = r.type
                /\ emitLog'[Len(emitLog')].filename = r.filename
                /\ emitLog'[Len(emitLog')].notif = r.notif

\* C32: a watcher started on a directory that holds plan files emits
\* exactly one created update for each of those files it can read and none
\* for any other; when the initial adds have all been handled the hub holds
\* a history of one version for each of those files; a later change is
\* emitted as modified and a later unlink as deleted with empty content.
C32_InitialScanCreated ==
    /\ []OneCreatedEach
    /\ []OneVersionEach
    /\ [][NotificationKinds]_vars

\* the watcher was started on both plan files, both initial adds have been
\* handled, and the hub holds one version for each
C32_Witness ==
    /\ ScanProcessed
    /\ PreExisting = PlanFiles
    /\ \A f \in PlanFiles : Len(VersionsOf(planHistory, f)) = 1 /\ CreatedFor(f) # {}

(***************************************************************************)
(* The todos directory is emptied while a reload is under way: session      *)
(* files are written one reload at a time and deleted at any moment.        *)
(***************************************************************************)
MaxReloadEvents == 3

NextReload ==
    \/ TodoStart
    \/ LoadReaddir
    \/ LoadStat
    \/ LoadReadFile
    \/ events < MaxReloadEvents /\ loads = {} /\ TodoWrite
    \/ events < MaxReloadEvents /\ TodoDelete

SpecReload == InitPlans /\ [][NextReload]_vars

\* the step in which the readdir of reload l resolves with no JSON file
FindsNoFile(l) ==
    /\ l.pc = "readdir"
    /\ l \notin loads'
    /\ todoDirExists
    /\ \A f \in TodoFiles : ~todoDir[f].exists

NoTasksStats ==
    [total |-> 0, pending |-> 0, inProgress |-> 0, completed |-> 0,
     completionPercentage |-> 0]

SentinelReplaces ==
    \A l \in loads :
        FindsNoFile(l) =>
            /\ currentState' # NoState
            /\ currentState'.sessionId = NoSession
            /\ currentState'.tasks = <<>>
            /\ currentState'.lastUpdated = now
            /\ GetTodos' = [status |-> 200, body |-> currentState']
            /\ GetTodosStats' = [status |-> 200, body |-> NoTasksStats]

\* C33: a reload whose readdir finds no JSON file makes the live state the
\* sentinel (sessionId "no-session", no tasks), whatever live state was held
\* before, and the stats computed from it are all zero.
C33_NoFileGivesSentinel == [][SentinelReplaces]_vars

\* a state with tasks was loaded and broadcast, and a later reload found the
\* directory empty: the sentinel is the live state and the last broadcast
C33_Witness ==
    /\ currentState # NoState
    /\ currentState.sessionId = NoSession
    /\ currentState.tasks = <<>>
    /\ Len(bcast) >= 2
    /\ bcast[Len(bcast)].data = currentState
    /\ \E i \in 1..(Len(bcast) - 1) :
          bcast[i].type = "todo" /\ bcast[i].data.tasks # <<>>

\* the step in which the hub's todo listener runs
TodoUpdateStep ==
    \/ uncaught' # uncaught
    \/ Len(bcast') = Len(bcast) + 1 /\ bcast'[Len(bcast')].type = "todo"
\* the step in which the hub's plan listener runs
PlanUpdateStep == Len(emitLog') = Len(emitLog) + 1
\* the steps of GET /api/stream: a response is added, or removed on close
StreamStep ==
    \/ opened' = opened + 1 /\ clients' = Append(clients, opened')
    \/ \E c \in Range(clients) :
          /\ clients' = SelectSeq(clients, LAMBDA x : x # c)
          /\ closedConns' = closedConns \cup {c}

HubFrames ==
    /\ TodoUpdateStep => planHistory' = planHistory /\ clients' = clients
    /\ PlanUpdateStep => currentState' = currentState /\ clients' = clients
    /\ planHistory' # planHistory =>
          /\ PlanUpdateStep
          /\ planHistory' = RecordVersion(planHistory, emitLog'[Len(emitLog')].update)
    /\ clients' # clients => StreamStep /\ bcast' = bcast /\ emitLog' = emitLog

\* C34: the hub's todo listener changes neither the plan histories nor the
\* subscriber set; its plan listener changes neither the todo watcher's live
\* state nor the subscriber set; the histories change only in the plan
\* listener and the subscriber set only when a stream opens or closes.
C34_HubFrames == [][HubFrames]_vars

\* a plan update and a todo update have both been broadcast to a subscriber
\* while a history and a live state were held
C34_Witness ==
    /\ clients # <<>>
    /\ DOMAIN planHistory # {}
    /\ currentState # NoState
    /\ \E c \in Range(clients) :
          \E i, j \in DOMAIN sent[c] :
              sent[c][i].data.type = "plan" /\ sent[c][j].data.type = "todo"

\* todo updates broadcast so far
TodoBroadcasts == {i \in DOMAIN bcast : bcast[i].type = "todo"}

\* no watcher: nothing written to the directory is reported or loaded, and
\* nothing reaches the hub's todo listener
NeverWatching ==
    todoWatcher = "absent" =>
        /\ loads = {}
        /\ todoNotifs = 0
        /\ getState = NoState
        /\ GetTodos = NotFound("No todo state available")
        /\ TodoBroadcasts = {}

\* a start that finds no directory installs nothing, and that is final
StaysAbsent ==
    /\ (todoWatcher = "null" /\ todoWatcher' # "null" /\ ~todoDirExists) =>
          todoWatcher' = "absent" /\ loads' = loads
    /\ todoWatcher = "absent" => todoWatcher' = "absent"

\* C35: when the todos directory is missing as the Todo Watcher starts, no
\* watcher is installed and the live state stays absent: GET /api/todos
\* answers 404 from then on, also after the directory and session files in
\* it are created, and no todo update is ever broadcast.
C35_NoWatcherForLife == []NeverWatching /\ [][StaysAbsent]_vars

\* the directory was created after the start and a session file with tasks
\* written to it: the endpoint still answers 404
C35_Witness ==
    /\ todoWatcher = "absent"
    /\ todoDirExists
    /\ \E f \in TodoFiles : todoDir[f].exists /\ todoDir[f].json = GoodJson
    /\ GetTodos.status = 404

\* the reloads of add/change notifications that are under way
Reloading == {l \in loads : l.notif # 0}
\* the reload of notification n returns in this step
ReloadEnds(n) ==
    /\ \E l \in loads : l.notif = n
    /\ \A l \in loads' : l.notif # n
\* the read of the most recent file, or an earlier step, threw
ReloadFailed(l) ==
    \/ ~todoDirExists
    \/ l.pc = "stat" /\ \E f \in l.listed \ DOMAIN l.stats : ~todoDir[f].exists
    \/ l.pc = "readFile" /\
          (~todoDir[l.mostRecent].exists \/ LoadThrows(todoDir[l.mostRecent].json))

BroadcastAfterReload ==
    \A n \in 1..todoNotifs :
        ReloadEnds(n) =>
            /\ Len(bcast') = Len(bcast) + 1
            /\ bcast'[Len(bcast')] = [type |-> "todo", data |-> currentState']
            /\ (\A l \in loads : l.notif = n /\ ReloadFailed(l) =>
                   currentState' = currentState)

\* C36: every add or change notification of the todos directory leads to
\* exactly one todo broadcast, issued in the step in which its reload
\* returns; after a failed reload the broadcast carries the live state that
\* was retained.
C36_OneBroadcastPerNotification ==
    /\ [](Cardinality(TodoBroadcasts) + Cardinality(Reloading) = todoNotifs)
    /\ [][BroadcastAfterReload]_vars

\* the created and modified updates emitted for a file
VersionedUpdates(f) ==
    {k \in DOMAIN emitLog : emitLog[k].filename = f /\ emitLog[k].type # "deleted"}

\* the history endpoint answers 404 exactly for the files without one
HistoryFoundIffVersioned ==
    \A f \in PlanFiles :
        /\ GetHistory(f).status \in {200, 404}
        /\ GetHistory(f).status = 404 <=> VersionedUpdates(f) = {}
        /\ GetHistory(f).status = 200 => GetHistory(f).versions # <<>>

\* a record stays; a deleted update leaves it as it is; a created or
\* modified update appends to the versions that were there
HistoryKept ==
    /\ DOMAIN planHistory \subseteq DOMAIN planHistory'
    /\ PlanUpdateStep =>
          LET e == emitLog'[Len(emitLog')]
              f == e.filename
          IN  /\ \A g \in DOMAIN planHistory \ {f} : planHistory'[g] = planHistory[g]
              /\ e.type = "deleted" =>
                    /\ planHistory' = planHistory
                    /\ \A g \in PlanFiles : GetHistory(g)' = GetHistory(g)
              /\ (e.type # "deleted" /\ f \in DOMAIN planHistory) =>
                    planHistory'[f] =
                        TrimVersions(Append(planHistory[f],
                                            [content   |-> e.update.file.content,
                                             timestamp |-> e.update.timestamp]))

\* C37: the history record of a filename is never removed: a deleted update
\* leaves what GET /api/plans/:filename/history returns unchanged, a later
\* created update appends to the same versions, and the endpoint answers 404
\* exactly for the filenames that never had a created or modified update.
C37_HistoryNeverRemoved == []HistoryFoundIffVersioned /\ [][HistoryKept]_vars

\* a file was created, deleted and created again: its history holds the
\* version from before the deletion and the one from after it
C37_Witness ==
    \E f \in PlanFiles :
        \E i, j, k \in DOMAIN emitLog :
            /\ i < j /\ j < k
            /\ emitLog[i].filename = f /\ emitLog[i].type = "created"
            /\ emitLog[j].filename = f /\ emitLog[j].type = "deleted"
            /\ emitLog[k].filename = f /\ emitLog[k].type = "created"
            /\ GetHistory(f).status = 200
            /\ Len(GetHistory(f).versions) >= 2
            /\ GetHistory(f).versions[1].timestamp = emitLog[i].update.timestamp

\* the version a created or modified update stands for
VersionOf(update) == [content |-> update.file.content, timestamp |-> update.timestamp]
\* the history of the update's file ends with the update
EndsWith(history, update) ==
    LET versions == VersionsOf(history, update.file.filename)
    IN  versions # <<>> /\ versions[Len(versions)] = VersionOf(update)

\* the step that writes a subscriber the frame of a created or modified
\* update leaves the file's history ending with that update
FrameAfterAppend ==
    \A c \in ClientIds :
        (Len(sent'[c]) = Len(sent[c]) + 1 /\ sent'[c][Len(sent'[c])].data.type = "plan") =>
            LET update == sent'[c][Len(sent'[c])].data.data
            IN  update.type # "deleted" => EndsWith(planHistory', update)

\* the newest created or modified update a connected subscriber was written
\* for a file is the last version of the file's history
NewestFrameIsLastVersion ==
    \A c \in Range(clients), f \in PlanFiles :
        LET frames == {i \in DOMAIN sent[c] :
                          /\ sent[c][i].data.type = "plan"
                          /\ sent[c][i].data.data.type # "deleted"
                          /\ sent[c][i].data.data.file.filename = f}
        IN  \A i \in frames :
                (\A j \in frames : j <= i) => EndsWith(planHistory, sent[c][i].data.data)

\* C38: the hub appends a created or modified update to the file's history
\* in the step in which it broadcasts it: whenever a subscriber has been
\* written the frame of such an update, the file's history already ends with
\* the update's content and timestamp.
C38_AppendBeforeBroadcast == []NewestFrameIsLastVersion /\ [][FrameAfterAppend]_vars

\* a subscriber has been written two versions of one file, and the history
\* ends with the second
C38_Witness ==
    \E c \in Range(clients) :
        \E i, j \in DOMAIN sent[c] :
            /\ i < j
            /\ sent[c][i].data.type = "plan" /\ sent[c][j].data.type = "plan"
            /\ sent[c][i].data.data.type # "deleted"
            /\ sent[c][j].data.data.type # "deleted"
            /\ sent[c][i].data.data.file.filename = sent[c][j].data.data.file.filename
            /\ EndsWith(planHistory, sent[c][j].data.data)
            /\ ~EndsWith(planHistory, sent[c][i].data.data)

\* the listing s returns in this step
ListingEnds(s) == \A t \in sessionLists' : t.id # s.id
\* the stat the listing awaits for f throws, or its read or JSON.parse does
FileFails(s, f) ==
    \/ s.per[f].pc = "stat" /\ ~todoDir[f].exists
    \/ s.per[f].pc = "readFile" /\ (~todoDir[f].exists \/ ~todoDir[f].json.parses)

\* a listing that returns while one of its files fails returns the empty
\* list, whatever it has read of the other files
FailureEmptiesSessions ==
    \A s \in sessionLists :
        (s.pc = "files" /\ ListingEnds(s) /\ \E f \in TodoFiles : FileFails(s, f)) =>
            /\ call'.fn = "listSessions" /\ call'.done
            /\ call'.output = [status |-> 200, body |-> <<>>]

\* C39: when stat, read or JSON.parse fails for one JSON file of the todos
\* directory, listSessions returns the empty list: the other sessions, well
\* formed and with tasks, are left out as well.
C39_OneFailureEmptiesSessions == [][FailureEmptiesSessions]_vars

\* the listing came back empty over an unchanged directory that holds a
\* session with tasks beside a file JSON.parse rejects
C39_Witness ==
    /\ SessionsListed
    /\ call.input = TodoDirNow
    /\ call.output.body = <<>>
    /\ \E f, g \in TodoFiles :
          /\ todoDir[f].exists /\ ~todoDir[f].json.parses
          /\ todoDir[g].exists /\ todoDir[g].json = GoodJson

\* the listPlans call of request l returns in this step
PlanListingEnds(l) == \A m \in planLists' : m.id # l.id
\* the read or the stat that listPlans awaits for request l throws
PlanFileFails(l) == l.pc \in {"readFile", "stat"} /\ ~planDir[Head(l.mdFiles)].exists

\* a request for a plan whose listing fails on one file is answered 404,
\* whichever file it asked for and whatever the listing had read
FailureHidesPlans ==
    \A l \in planLists :
        (l.filename # NoFilename /\ PlanListingEnds(l) /\ PlanFileFails(l)) =>
            /\ call'.fn = "getPlan" /\ call'.done
            /\ call'.input.filename = l.filename
            /\ call'.output = NotFound("Plan not found")

\* C40: when the read or the stat of one markdown file fails during
\* listPlans, for instance a file deleted after readdir named it, listPlans
\* returns the empty list and GET /api/plans/:filename answers 404 for every
\* filename, also for a plan that is there and can be read.
C40_OneFailureHidesPlans == [][FailureHidesPlans]_vars

\* the request for a plan that has been in the directory, untouched, since
\* before the request was answered 404, another file having been deleted
\* during the listing
C40_Witness ==
    /\ call.fn = "getPlan" /\ call.done
    /\ call.output.status = 404
    /\ planDir[call.input.filename].exists
    /\ call.input.dir.files[call.input.filename] = planDir[call.input.filename]
    /\ \E g \in PlanFiles \ {call.input.filename} :
          call.input.dir.files[g].exists /\ ~planDir[g].exists

=============================================================================
